---- MODULE Spec2Model ----
(***************************************************************************)
(* A model of simple-completion-language-server: the settings record and   *)
(* its partial update, the document map and its incremental edits, the     *)
(* completion providers and their merge, the request loop that owns the    *)
(* state, and the LSP boundary tasks that feed the loop's queue.           *)
(*                                                                         *)
(* Text is a sequence of characters.  A character is a short string; the   *)
(* tokens "lambda" and "laquo" stand for one non-ASCII character each      *)
(* (a two-byte letter and a two-byte punctuation mark), so that character  *)
(* counts and UTF-8 byte counts differ where the source mixes them.        *)
(***************************************************************************)
EXTENDS Integers, Sequences, FiniteSets, TLC

VARIABLES
    settings,                   \* BackendState.settings
    citation_bibliography_re,   \* BackendState.citation_bibliography_re: <<>> or <<source>>
    docs,                       \* BackendState.docs: URI -> NoDoc or Document
    rx,                         \* the unbounded mpsc queue of BackendRequest
    loop,                       \* the request loop task: "running" or "panicked"
    last,                       \* the command the loop handled last, with the state before it
    tasks,                      \* the LSP boundary's handler futures, in arrival order
    oneshot,                    \* per completion request: what was sent on its reply channel
    overflow_checks             \* whether the build checks integer overflow (debug) or wraps

vars == <<settings, citation_bibliography_re, docs, rx, loop, last, tasks, oneshot,
          overflow_checks>>

----------------------------------------------------------------------------
(* Characters *)

WordChars == {"a", "b", "A", "lambda", "Lambda"}
PunctChars == {"@", "#", "+", "/", "~", ".", "%", "(", "laquo"}
SpaceChars == {" ", "\n"}
Chars == WordChars \cup PunctChars \cup SpaceChars

\* ch.is_alphanumeric() || ch == '_' || ch == '-'
char_is_word(ch) == ch \in WordChars

\* a test that takes every character into the char prefix
char_is_any(ch) == ch \in Chars

\* ch != ' ' && ch != '\n' && ch != '\t'
char_is_char_prefix(ch) == ch \notin SpaceChars

\* char::is_alphabetic
is_alphabetic(ch) == ch \in WordChars

\* the UTF-8 length of one character
ByteLen(ch) == IF ch \in {"lambda", "Lambda", "laquo"} THEN 2 ELSE 1

\* case folding, as caseless and to_lowercase apply it
Fold(ch) == IF ch = "A" THEN "a" ELSE IF ch = "Lambda" THEN "lambda" ELSE ch

\* case folding as ascii_case_insensitive applies it: ASCII letters only
AsciiFold(ch) == IF ch = "A" THEN "a" ELSE ch

RECURSIVE StrLen(_)
\* str::len: the length in bytes
StrLen(s) == IF s = <<>> THEN 0 ELSE ByteLen(Head(s)) + StrLen(Tail(s))

FoldStr(s) == [i \in 1..Len(s) |-> Fold(s[i])]

\* the characters of s from the 0-based character index a (inclusive) to b (exclusive)
Slice(s, a, b) == SubSeq(s, a + 1, b)

\* the number of leading characters of s that make up exactly n bytes, or -1 when
\* byte n falls inside a character or beyond the end (str::get(..n) is None)
CharsForBytes(s, n) ==
    LET ks == {k \in 0..Len(s) : StrLen(Slice(s, 0, k)) = n}
    IN IF ks = {} THEN -1 ELSE CHOOSE k \in ks : TRUE

\* caseless::default_caseless_match_str
caseless_match(x, y) == FoldStr(x) = FoldStr(y)

starts_with(source, s) ==
    IF StrLen(s) > StrLen(source) THEN FALSE
    ELSE LET k == CharsForBytes(source, StrLen(s))
         IN IF k = -1 THEN FALSE ELSE caseless_match(Slice(source, 0, k), s)

\* str::contains for a substring
Contains(s, sub) ==
    \E i \in 0..(Len(s) - Len(sub)) : Slice(s, i, i + Len(sub)) = sub

\* Option: <<>> is None, <<v>> is Some(v)
None == <<>>
Some(v) == <<v>>
unwrap_or(opt, d) == IF opt = <<>> THEN d ELSE opt[1]

----------------------------------------------------------------------------
(* Settings *)

\* The default extraction pattern, bibliography:\s*['"\[]*([~\w\./\\-]*)['"\]]* ,
\* written with the one-character marker "%" for the literal "bibliography:".
DefaultBibRegex == <<"%", "(", "~", "a", ".", "/", ")">>

\* Regex::new: a pattern with an unclosed group does not compile
RegexValid(src) ==
    Cardinality({i \in 1..Len(src) : src[i] = "("})
        = Cardinality({i \in 1..Len(src) : src[i] = ")"})

\* whether the compiled pattern has a capture group 1
RegexHasGroup(src) == RegexValid(src) /\ \E i \in 1..Len(src) : src[i] = "("

DefaultMaxCompletionItems == 100
DefaultMaxCharsPrefixLen == 64
DefaultMinCharsPrefixLen == 2

DefaultSettings ==
    [ max_completion_items            |-> DefaultMaxCompletionItems,
      max_chars_prefix_len            |-> DefaultMaxCharsPrefixLen,
      min_chars_prefix_len            |-> DefaultMinCharsPrefixLen,
      snippets_first                  |-> FALSE,
      snippets_inline_by_word_tail    |-> FALSE,
      citation_prefix_trigger         |-> <<"@">>,
      citation_bibfile_extract_regexp |-> DefaultBibRegex,
      feature_words                   |-> TRUE,
      feature_snippets                |-> TRUE,
      feature_unicode_input           |-> FALSE,
      feature_paths                   |-> FALSE,
      feature_citations               |-> FALSE ]

SettingsFields == DOMAIN DefaultSettings

\* PartialBackendSettings: the settings' fields as options, and max_path_chars
PartialFields == SettingsFields \cup {"max_path_chars"}

EmptyPartial == [f \in PartialFields |-> None]

apply_partial_settings(self, p) ==
    [ max_completion_items            |-> unwrap_or(p.max_completion_items, self.max_completion_items),
      max_chars_prefix_len            |-> unwrap_or(p.max_path_chars, self.max_chars_prefix_len),
      min_chars_prefix_len            |-> unwrap_or(p.min_chars_prefix_len, self.min_chars_prefix_len),
      snippets_first                  |-> unwrap_or(p.snippets_first, self.snippets_first),
      snippets_inline_by_word_tail    |-> unwrap_or(p.snippets_inline_by_word_tail,
                                                    self.snippets_inline_by_word_tail),
      citation_prefix_trigger         |-> unwrap_or(p.citation_prefix_trigger,
                                                    self.citation_prefix_trigger),
      citation_bibfile_extract_regexp |-> unwrap_or(p.citation_prefix_trigger,
                                                    self.citation_bibfile_extract_regexp),
      feature_words                   |-> unwrap_or(p.feature_words, self.feature_words),
      feature_snippets                |-> unwrap_or(p.feature_snippets, self.feature_snippets),
      feature_unicode_input           |-> unwrap_or(p.feature_unicode_input,
                                                    self.feature_unicode_input),
      feature_paths                   |-> unwrap_or(p.feature_paths, self.feature_paths),
      feature_citations               |-> unwrap_or(p.feature_citations, self.feature_citations) ]

\* DidChangeConfigurationParams.settings: a JSON value that deserializes to a
\* partial settings object, or one that does not (a wrong type for a key)
Payload(p) == [wellformed |-> TRUE, partial |-> p]
MalformedPayload == [wellformed |-> FALSE, partial |-> EmptyPartial]

\* Regex::new(&settings.citation_bibfile_extract_regexp).ok() of BackendState::new
InitialRegex(st) ==
    IF RegexValid(st.citation_bibfile_extract_regexp)
    THEN Some(st.citation_bibfile_extract_regexp) ELSE None

\* change_configuration: the settings and the compiled pattern it leaves, and
\* whether it returned Ok
change_configuration(st, re, payload) ==
    IF ~payload.wellformed
    THEN [settings |-> st, re |-> re, ok |-> FALSE]
    ELSE LET s2 == apply_partial_settings(st, payload.partial)
         IN IF RegexValid(s2.citation_bibfile_extract_regexp)
            THEN [settings |-> s2, re |-> Some(s2.citation_bibfile_extract_regexp), ok |-> TRUE]
            ELSE [settings |-> s2, re |-> re, ok |-> FALSE]

----------------------------------------------------------------------------
(* Documents and the rope's index conversions *)

URIs == {"u1", "u2"}
NoDoc == [open |-> FALSE]
Document(text, language_id) == [open |-> TRUE, text |-> text, language_id |-> language_id]

\* Rope::len_chars
len_chars(text) == Len(text)

\* Rope::len_lines: one more than the number of line breaks
len_lines(text) == Cardinality({i \in 1..Len(text) : text[i] = "\n"}) + 1

\* Result: an error, or Ok with a value
Err == [ok |-> FALSE, v |-> 0]
Ok(v) == [ok |-> TRUE, v |-> v]

\* Rope::try_line_to_char: the index of the line's first character; the line
\* one past the last gives len_chars; a line beyond that is an error
try_line_to_char(text, line) ==
    IF line > len_lines(text) THEN Err
    ELSE IF line = len_lines(text) THEN Ok(Len(text))
    ELSE IF line = 0 THEN Ok(0)
    ELSE Ok(CHOOSE i \in 1..Len(text) :
                /\ text[i] = "\n"
                /\ Cardinality({j \in 1..i : text[j] = "\n"}) = line)

Position(line, character) == [line |-> line, character |-> character]
Range(start, end) == [start |-> start, end |-> end]
\* TextDocumentContentChangeEvent
Change(range, text) == [range |-> range, text |-> text]

\* a turn that removes everything from the start of the range on
ChangeStepToEnd(text, change) ==
    IF change.range = None THEN [text |-> text, ok |-> TRUE]
    ELSE
    LET sl == try_line_to_char(text, change.range[1].start.line)
        start_idx == IF sl.ok THEN sl.v + change.range[1].start.character ELSE 0
    IN  IF sl.ok /\ start_idx <= len_chars(text)
        THEN [text |-> Slice(text, 0, start_idx) \o change.text, ok |-> TRUE]
        ELSE [text |-> change.text, ok |-> TRUE]

\* a turn that only inserts at the start of the range and removes nothing
ChangeStepInsertOnly(text, change) ==
    IF change.range = None THEN [text |-> text, ok |-> TRUE]
    ELSE
    LET sl == try_line_to_char(text, change.range[1].start.line)
        start_idx == IF sl.ok THEN sl.v + change.range[1].start.character ELSE 0
    IN  IF sl.ok /\ start_idx <= len_chars(text)
        THEN [text |-> Slice(text, 0, start_idx) \o change.text
                           \o Slice(text, start_idx, Len(text)),
              ok |-> TRUE]
        ELSE [text |-> change.text, ok |-> TRUE]

\* one turn of change_doc's for loop: the text the change leaves, and ok = FALSE
\* when a `?` returned the error of try_remove
ChangeStep(text, change) ==
    IF change.range = None THEN [text |-> text, ok |-> TRUE]
    ELSE
    LET range == change.range[1]
        sl == try_line_to_char(text, range.start.line)
        start_idx == IF sl.ok THEN Ok(sl.v + range.start.character) ELSE Err
        el == try_line_to_char(text, range.end.line)
        end_idx == IF el.ok /\ el.v + range.end.character <= len_chars(text)
                   THEN Ok(el.v + range.end.character) ELSE Err
    IN  IF start_idx.ok /\ ~end_idx.ok
        THEN IF start_idx.v > len_chars(text)
             THEN [text |-> text, ok |-> FALSE]
             ELSE [text |-> Slice(text, 0, start_idx.v) \o change.text, ok |-> TRUE]
        ELSE IF start_idx.ok /\ end_idx.ok
        THEN IF start_idx.v > end_idx.v
             THEN [text |-> text, ok |-> FALSE]
             ELSE [text |-> Slice(text, 0, start_idx.v) \o change.text
                                \o Slice(text, end_idx.v, Len(text)),
                   ok |-> TRUE]
        ELSE [text |-> change.text, ok |-> TRUE]

RECURSIVE ChangeAll(_, _)
\* every change applied in turn, a failing one leaving the text as it was
ChangeAll(text, changes) ==
    IF changes = <<>> THEN [text |-> text, ok |-> TRUE]
    ELSE LET r == ChangeStep(text, Head(changes))
             rest == ChangeAll(r.text, Tail(changes))
         IN [text |-> rest.text, ok |-> r.ok /\ rest.ok]

RECURSIVE ChangeLoop(_, _)
\* change_doc's for loop: the first failing change returns from the function
ChangeLoop(text, changes) ==
    IF changes = <<>> THEN [text |-> text, ok |-> TRUE]
    ELSE LET r == ChangeStep(text, Head(changes))
         IN IF r.ok THEN ChangeLoop(r.text, Tail(changes)) ELSE r

\* change_doc: the document map it leaves and whether it returned Ok
change_doc(ds, params) ==
    IF ~ds[params.uri].open THEN [docs |-> ds, ok |-> TRUE]
    ELSE LET r == ChangeLoop(ds[params.uri].text, params.content_changes)
         IN [docs |-> [ds EXCEPT ![params.uri].text = r.text], ok |-> r.ok]

\* the files save_doc can read: the text on disk at the URI's path, if any
DiskText(uri) == IF uri = "u1" THEN Some(<<"a", "b">>) ELSE None

\* save_doc
save_doc(ds, params) ==
    IF ~ds[params.uri].open THEN [docs |-> ds, ok |-> FALSE]
    ELSE IF params.text # None
    THEN [docs |-> [ds EXCEPT ![params.uri].text = params.text[1]], ok |-> TRUE]
    ELSE IF DiskText(params.uri) # None
    THEN [docs |-> [ds EXCEPT ![params.uri].text = DiskText(params.uri)[1]], ok |-> TRUE]
    ELSE [docs |-> ds, ok |-> FALSE]

\* a NewDoc arm that starts a fresh map
new_doc_fresh_map(ds, params) ==
    [u \in URIs |-> IF u = params.uri THEN Document(params.text, params.language_id)
                    ELSE NoDoc]

\* the NewDoc arm: insert or replace the document at its URI
new_doc(ds, params) ==
    [ds EXCEPT ![params.uri] = Document(params.text, params.language_id)]

----------------------------------------------------------------------------
(* Prefix extraction and the word search *)

\* CompletionParams: the document's URI and the cursor
CompletionParams(uri, line, character) == [uri |-> uri, line |-> line, character |-> character]

\* the number of word characters immediately left of the 0-based index cursor
RECURSIVE WordRunBack(_, _)
WordRunBack(text, cursor) ==
    IF cursor = 0 \/ ~char_is_word(text[cursor]) THEN 0
    ELSE 1 + WordRunBack(text, cursor - 1)

\* the count without the test of the limit
RECURSIVE CharRunBackUncapped(_, _, _)
CharRunBackUncapped(text, cursor, limit) ==
    IF cursor = 0 \/ ~char_is_char_prefix(text[cursor]) THEN 0
    ELSE 1 + CharRunBackUncapped(text, cursor - 1, limit)

\* the number of characters immediately left of cursor that are not space, tab or
\* newline, counting at most limit of them
RECURSIVE CharRunBack(_, _, _)
CharRunBack(text, cursor, limit) ==
    IF cursor = 0 \/ limit = 0 \/ ~char_is_char_prefix(text[cursor]) THEN 0
    ELSE 1 + CharRunBack(text, cursor - 1, limit - 1)

\* get_prefix: an error, or the word prefix, the char prefix and the document.
\* A document of the model is one rope chunk, so RopeSlice::as_str is Some.
get_prefix(ds, max_chars, params) ==
    IF ~ds[params.uri].open THEN Err
    ELSE
    LET text == ds[params.uri].text
        ls == try_line_to_char(text, params.line)
    IN  IF ~ls.ok THEN Err
        ELSE
        LET cursor == ls.v + params.character
        IN  IF cursor > len_chars(text) THEN Err
            ELSE
            LET start_offset_word == cursor - WordRunBack(text, cursor)
                start_offset_chars ==
                    cursor - CharRunBack(text, cursor, max_chars)
            IN  Ok([ prefix       |-> Slice(text, start_offset_word, cursor),
                     chars_prefix |-> Slice(text, start_offset_chars, cursor),
                     cursor       |-> cursor ])

\* whether the automaton built from prefix (ascii_case_insensitive) matches at the
\* 0-based character index p of text
MatchAt(prefix, text, p) ==
    /\ p + Len(prefix) <= Len(text)
    /\ \A i \in 1..Len(prefix) : AsciiFold(text[p + i]) = AsciiFold(prefix[i])

\* a word end search that looks at one character only
WordRunOne(text, p) ==
    IF p >= Len(text) \/ ~char_is_word(text[p + 1]) THEN 0 ELSE 1

\* the number of word characters of text from the 0-based index p on
RECURSIVE WordRun(_, _)
WordRun(text, p) ==
    IF p >= Len(text) \/ ~char_is_word(text[p + 1]) THEN 0
    ELSE 1 + WordRun(text, p + 1)

\* search, from the stream position p on: the result set after the loop over the
\* remaining non-overlapping matches
RECURSIVE SearchFrom(_, _, _, _, _)
SearchFrom(prefix, text, p, max_completion_items, result) ==
    IF p > Len(text) - Len(prefix) THEN result
    ELSE IF ~MatchAt(prefix, text, p)
    THEN SearchFrom(prefix, text, p + 1, max_completion_items, result)
    ELSE
    LET mat_end == p + Len(prefix)
        next == IF Len(prefix) = 0 THEN p + 1 ELSE mat_end
        is_word_start == p = 0 \/ ~char_is_word(text[p])
        item == Slice(text, p, mat_end + WordRun(text, mat_end))
        accept == is_word_start /\ item # prefix /\ starts_with(item, prefix)
        result2 == IF accept THEN result \cup {item} ELSE result
    IN  IF accept /\ Cardinality(result2) >= max_completion_items THEN result2
        ELSE SearchFrom(prefix, text, next, max_completion_items, result2)

search(prefix, text, max_completion_items, result) ==
    SearchFrom(prefix, text, 0, max_completion_items, result)

\* whether search returns the error of try_stream_find_iter before its loop: a
\* stream search is refused for an automaton that holds the empty pattern
StreamSearchErr(prefix) == prefix = <<>>

\* the loop of BackendState::completion over the other documents, in the order
\* others (the iteration order of the HashMap)
RECURSIVE SearchOthers(_, _, _, _, _)
SearchOthers(prefix, ds, others, max_completion_items, result) ==
    IF others = <<>> THEN result
    ELSE LET r == search(prefix, ds[Head(others)].text, max_completion_items, result)
         IN IF Cardinality(r) >= max_completion_items THEN r
            ELSE SearchOthers(prefix, ds, Tail(others), max_completion_items, r)

\* all the sequences that list the elements of the set S once each
Orders(S) == {f \in [1..Cardinality(S) -> S] : \A i, j \in DOMAIN f : f[i] = f[j] => i = j}

\* a completion that searches the other documents before the document of the
\* cursor
completion_others_first(st, ds, prefix, uri) ==
    IF StreamSearchErr(prefix) THEN {} ELSE
    { SearchOthers(prefix, ds, others \o <<uri>>, st.max_completion_items, {}) :
        others \in Orders({u \in URIs : ds[u].open /\ u # uri}) }

\* BackendState::completion: the sets of words it can return, one per iteration
\* order of the document map; no set at all when the first search returns the
\* error, which the ? operator passes on
completion(st, ds, prefix, uri) ==
    IF StreamSearchErr(prefix) THEN {} ELSE
    LET first == search(prefix, ds[uri].text, st.max_completion_items, {})
    IN  IF Cardinality(first) >= st.max_completion_items THEN {first}
        ELSE { SearchOthers(prefix, ds, others, st.max_completion_items, first) :
                 others \in Orders({u \in URIs : ds[u].open /\ u # uri}) }

----------------------------------------------------------------------------
(* Completion items, the snippet provider and the unicode-input provider *)

\* a - b on u32 in a build without overflow checks: the difference wraps.
\* A u32 is held by its two's-complement residue, so that a negative n
\* stands for the u32 value 2^32 + n.
WrappingSub(a, b) == a - b

Min(a, b) == IF a <= b THEN a ELSE b

\* Iterator::take
Take(seq, n) == SubSeq(seq, 1, Min(n, Len(seq)))

\* what a provider call yields: its items, or a panic of the task (the u32
\* subtraction overflowing under overflow checks, a slice off a char boundary)
Yield(panic, items) == [panic |-> panic, items |-> IF panic THEN <<>> ELSE items]

\* a CompletionItem; provider names the function that built it, documentation
\* says what its documentation holds
Item(provider, kind, label, new_text, has_edit, line, start, end, sort_text, filter_text) ==
    [ provider |-> provider, kind |-> kind, label |-> label, new_text |-> new_text,
      has_edit |-> has_edit, line |-> line, start |-> start, end |-> end,
      sort_text |-> sort_text, filter_text |-> filter_text, documentation |-> "none" ]

\* BackendState.snippets, sorted by prefix as the loader leaves them
Snippet(scope, prefix, body) == [scope |-> scope, prefix |-> prefix, body |-> body]
SnippetTable ==
    << Snippet(None, <<"a", "a">>, <<"body_aa">>),
       Snippet(Some({"python"}), <<"a", "b">>, <<"body_ab_python">>),
       Snippet(Some({"c"}), <<"a", "b">>, <<"body_ab_c">>),
       Snippet(Some({}), <<"lambda", "a">>, <<"body_lambda_a">>) >>

\* BackendState.unicode_input, longest prefix first as the loader leaves them
UnicodeInputItem(prefix, body) == [prefix |-> prefix, body |-> body]
UnicodeInputTable ==
    << UnicodeInputItem(<<"b", "a", "b">>, <<"glyph_bab">>),
       UnicodeInputItem(<<"a", "b">>, <<"glyph_ab">>),
       UnicodeInputItem(<<"a", "a">>, <<"glyph_aa">>) >>

MaxOf(S) == IF S = {} THEN 0 ELSE CHOOSE m \in S : \A n \in S : n <= m

\* BackendState::new: the longest prefix of each table, in bytes
max_snippet_input_prefix_len ==
    MaxOf({StrLen(SnippetTable[i].prefix) : i \in DOMAIN SnippetTable})
max_unicode_input_prefix_len ==
    MaxOf({StrLen(UnicodeInputTable[i].prefix) : i \in DOMAIN UnicodeInputTable})

\* the filter without its test of the scope
SnippetMatchesAnyScope(s, prefix, exact_match, doc) ==
    IF exact_match THEN caseless_match(s.prefix, prefix)
    ELSE starts_with(s.prefix, prefix)

\* the filter of BackendState::snippets
SnippetMatches(s, prefix, exact_match, doc) ==
    /\ \/ s.scope = None
       \/ s.scope[1] = {}
       \/ doc.language_id \in s.scope[1]
    /\ IF exact_match THEN caseless_match(s.prefix, prefix)
       ELSE starts_with(s.prefix, prefix)

\* BackendState::snippets; checks says whether the build has overflow checks
snippets(st, prefix, filter_text_prefix, exact_match, doc, params, checks) ==
    LET matched == SelectSeq(SnippetTable,
                             LAMBDA s : SnippetMatches(s, prefix, exact_match, doc))
        taken == Take(matched, st.max_completion_items)
        start == WrappingSub(params.character, StrLen(prefix))
    IN  Yield(taken # <<>> /\ params.character < StrLen(prefix) /\ checks,
              [i \in 1..Len(taken) |->
                 [Item("snippets", "SNIPPET", taken[i].prefix, taken[i].body, TRUE,
                       params.line, start, params.character, taken[i].prefix,
                       IF filter_text_prefix = <<>> THEN taken[i].prefix
                       ELSE filter_text_prefix)
                  EXCEPT !.documentation = "body"]])

\* snippets_by_word_tail, from the tail that starts at the character index i on
RECURSIVE SnippetsTailFrom(_, _, _, _, _, _, _)
SnippetsTailFrom(st, chars_prefix, i, doc, params, checks, acc) ==
    LET part == Slice(chars_prefix, i, Len(chars_prefix))
    IN  IF part = <<>> THEN Yield(FALSE, acc)
        ELSE IF StrLen(part) > max_snippet_input_prefix_len
        THEN SnippetsTailFrom(st, chars_prefix, i + 1, doc, params, checks, acc)
        ELSE IF StrLen(part) < st.min_chars_prefix_len THEN Yield(FALSE, acc)
        ELSE LET r == snippets(st, part, chars_prefix, FALSE, doc, params, checks)
                 acc2 == acc \o r.items
             IN  IF r.panic THEN r
                 ELSE IF Len(acc2) >= st.max_completion_items THEN Yield(FALSE, acc2)
                 ELSE SnippetsTailFrom(st, chars_prefix, i + 1, doc, params, checks, acc2)

snippets_by_word_tail(st, chars_prefix, doc, params, checks) ==
    SnippetsTailFrom(st, chars_prefix, 0, doc, params, checks, <<>>)

\* the decimal digits of n
DigitChar(d) == <<"0", "1", "2", "3", "4", "5", "6", "7", "8", "9">>[d + 1]
RECURSIVE Digits(_)
Digits(n) == IF n < 10 THEN <<DigitChar(n)>> ELSE Digits(n \div 10) \o <<DigitChar(n % 10)>>

SortKeyWidth == 2

\* format!("{:0width$}", index, width = 2)
SortKey(index) ==
    LET d == Digits(index)
    IN [i \in 1..(SortKeyWidth - Len(d)) |-> "0"] \o d

\* the loop of unicode_input, from the tail that starts at the character index i on
RECURSIVE UnicodeTailFrom(_, _, _, _, _, _, _)
UnicodeTailFrom(st, word_prefix, chars_prefix, i, params, checks, acc) ==
    LET part == Slice(chars_prefix, i, Len(chars_prefix))
    IN  IF part = <<>> THEN Yield(FALSE, acc)
        ELSE IF StrLen(part) > max_unicode_input_prefix_len
        THEN UnicodeTailFrom(st, word_prefix, chars_prefix, i + 1, params, checks, acc)
        ELSE IF StrLen(part) < st.min_chars_prefix_len THEN Yield(FALSE, acc)
        ELSE LET matched == SelectSeq(UnicodeInputTable,
                                      LAMBDA s : starts_with(s.prefix, part))
                 taken == Take(matched, st.max_completion_items - Len(acc))
                 start == WrappingSub(params.character, StrLen(part))
                 acc2 == acc \o
                     [k \in 1..Len(taken) |->
                        [Item("unicode_input", "TEXT", taken[k].body, taken[k].body, TRUE,
                              params.line, start, params.character, <<>>,
                              word_prefix \o taken[k].prefix)
                         EXCEPT !.documentation = "prefix"]]
             IN  IF taken # <<>> /\ params.character < StrLen(part) /\ checks
                 THEN Yield(TRUE, <<>>)
                 ELSE IF Len(acc2) >= st.max_completion_items THEN Yield(FALSE, acc2)
                 ELSE UnicodeTailFrom(st, word_prefix, chars_prefix, i + 1, params, checks, acc2)

\* BackendState::unicode_input: the sort key of an item is its emission index
unicode_input(st, word_prefix, chars_prefix, params, checks) ==
    LET r == UnicodeTailFrom(st, word_prefix, chars_prefix, 0, params, checks, <<>>)
    IN  Yield(r.panic, [k \in 1..Len(r.items) |-> [r.items[k] EXCEPT !.sort_text = SortKey(k - 1)]])

----------------------------------------------------------------------------
(* The file system, the path provider and the citation provider *)

\* BackendState.home_dir
HomeDir == <<"/", "a">>

\* Url::path of a document's URI
UriPath(uri) == IF uri = "u1" THEN <<"/", "a", "/", "d">> ELSE <<"/", "d">>

\* the directories on disk, each with its entries in the order read_dir may give
\* them (any order of them is possible): / holds the directory a and the file b,
\* /a holds the files Ab and b
DirEntry(name, is_dir) == [name |-> name, is_dir |-> is_dir]
DirEntries(dir) ==
    IF dir = <<"/">> THEN {DirEntry(<<"a">>, TRUE), DirEntry(<<"b">>, FALSE)}
    ELSE IF dir = <<"/", "a">> THEN {DirEntry(<<"A", "b">>, FALSE), DirEntry(<<"b">>, FALSE)}
    ELSE {}
IsDirectory(dir) == dir \in {<<"/">>, <<"/", "a">>}

\* the bibliography files on disk: /b parses to three entries, one of them
\* without a title; /a/b does not parse; no other path can be read
BibEntry(key, has_title, has_author) ==
    [key |-> key, has_title |-> has_title, has_author |-> has_author]
BibFile(path) ==
    IF path = <<"/", "b">>
    THEN [readable |-> TRUE, parses |-> TRUE,
          entries |-> << BibEntry(<<"a", "b">>, TRUE, TRUE),
                         BibEntry(<<"b", "a">>, TRUE, TRUE),
                         BibEntry(<<"b", "b">>, FALSE, TRUE) >>]
    ELSE IF path = <<"/", "a", "/", "b">>
    THEN [readable |-> TRUE, parses |-> FALSE, entries |-> <<>>]
    ELSE [readable |-> FALSE, parses |-> FALSE, entries |-> <<>>]

\* the 0-based index of the first occurrence of pat in s, or -1
FindFirst(s, pat) ==
    LET at == {i \in 0..(Len(s) - Len(pat)) : Slice(s, i, i + Len(pat)) = pat}
    IN IF at = {} THEN -1 ELSE CHOOSE i \in at : \A j \in at : i <= j

\* str::replacen(pat, to, 1)
ReplaceFirst(s, pat, to) ==
    LET i == FindFirst(s, pat)
    IN IF i = -1 THEN s ELSE Slice(s, 0, i) \o to \o Slice(s, i + Len(pat), Len(s))

HasPrefix(s, pre) == Len(pre) <= Len(s) /\ Slice(s, 0, Len(pre)) = pre

\* PathLogic::from
PathLogic(s) ==
    IF HasPrefix(s, <<"~", "/">>) THEN "Tilde"
    ELSE IF HasPrefix(s, <<".", "/">>) THEN "RelativeCurrent"
    ELSE IF HasPrefix(s, <<".", ".", "/">>) THEN "RelativeParent"
    ELSE "Full"

\* the 0-based index of the last separator of s, or -1
LastSep(s) ==
    LET at == {i \in 1..Len(s) : s[i] = "/"}
    IN IF at = {} THEN -1 ELSE (CHOOSE i \in at : \A j \in at : j <= i) - 1

\* Path::parent of a path that names a file or directory: the path without its
\* last component and the separator before it; the parent of /x is the root
PathParent(s) ==
    LET k == LastSep(s)
    IN IF k = -1 THEN <<>> ELSE IF k = 0 THEN <<"/">> ELSE Slice(s, 0, k)

\* Path::file_name: the last component, None when it is ".."
PathFileName(s) ==
    LET name == Slice(s, LastSep(s) + 1, Len(s))
    IN IF name = <<".", ".">> \/ name = <<>> THEN None ELSE Some(name)

\* PathBuf::join of a directory and a name
PathJoin(dir, name) ==
    IF dir # <<>> /\ dir[Len(dir)] = "/" THEN dir \o name ELSE dir \o <<"/">> \o name

\* the directory a path string names: a trailing separator is ignored
DirOf(s) == IF Len(s) > 1 /\ s[Len(s)] = "/" THEN Slice(s, 0, Len(s) - 1) ELSE s

\* PathState::new: the directory of the document and, for "../", its parent
CurrentDir(uri) == PathParent(UriPath(uri))
ParentDir(uri) ==
    IF CurrentDir(uri) = <<"/">> THEN None ELSE Some(PathParent(CurrentDir(uri)))

\* PathState::expand
PathExpand(logic, s, uri) ==
    IF logic = "Tilde" THEN ReplaceFirst(s, <<"~">>, HomeDir)
    ELSE IF logic = "RelativeCurrent" THEN ReplaceFirst(s, <<".">>, CurrentDir(uri))
    ELSE IF logic = "RelativeParent" /\ ParentDir(uri) # None
    THEN ReplaceFirst(s, <<".", ".">>, ParentDir(uri)[1])
    ELSE s

\* PathState::fold
PathFold(logic, s, uri) ==
    IF logic = "Tilde" THEN ReplaceFirst(s, HomeDir, <<"~">>)
    ELSE IF logic = "RelativeCurrent" THEN ReplaceFirst(s, CurrentDir(uri), <<".">>)
    ELSE IF logic = "RelativeParent" /\ ParentDir(uri) # None
    THEN ReplaceFirst(s, ParentDir(uri)[1], <<".", ".">>)
    ELSE s

\* BackendState::paths: the results it can yield, one per order in which
\* read_dir lists the directory
paths(st, word_prefix, chars_prefix0, params, uri, checks) ==
    IF ~Contains(chars_prefix0, <<"/">>) THEN {Yield(FALSE, <<>>)}
    ELSE
    LET first_char == chars_prefix0[1]
        last_char == chars_prefix0[Len(chars_prefix0)]
        keep == is_alphabetic(first_char) \/ first_char \in {"/", "~", "."}
    IN  \* &chars_prefix[1..] is off a char boundary when the first character is
        \* longer than one byte
        IF ~keep /\ ByteLen(first_char) > 1 THEN {Yield(TRUE, <<>>)}
        ELSE
        LET trimmed == IF keep THEN chars_prefix0 ELSE Tail(chars_prefix0)
            chars_prefix_len == StrLen(trimmed)
            logic == PathLogic(trimmed)
            expanded == PathExpand(logic, trimmed, uri)
            file_name == PathFileName(expanded)
            filename == IF last_char = "/" THEN <<>> ELSE FoldStr(file_name[1])
            parent_dir == IF last_char = "/" THEN expanded ELSE PathParent(expanded)
        IN  IF last_char # "/" /\ file_name = None THEN {Yield(FALSE, <<>>)}
            ELSE IF ~IsDirectory(DirOf(parent_dir)) THEN {Yield(FALSE, <<>>)}
            ELSE
            { LET kept == SelectSeq(listing,
                              LAMBDA e : filename = <<>> \/ HasPrefix(FoldStr(e.name), filename))
                  taken == Take(kept, st.max_completion_items)
                  start == WrappingSub(params.character, chars_prefix_len)
              IN  Yield(taken # <<>> /\ params.character < chars_prefix_len /\ checks,
                        [k \in 1..Len(taken) |->
                           LET full_path == PathFold(logic, PathJoin(parent_dir, taken[k].name), uri)
                           IN Item("paths", IF taken[k].is_dir THEN "FOLDER" ELSE "FILE",
                                   full_path, full_path, TRUE, params.line, start,
                                   params.character, full_path, word_prefix \o full_path)])
              : listing \in Orders(DirEntries(DirOf(parent_dir))) }

\* the characters the default pattern's group captures: [~\w\./\\-]
IsBibPathChar(ch) == char_is_word(ch) \/ ch \in {"~", ".", "/"}

RECURSIVE BibPathRun(_, _)
BibPathRun(text, p) ==
    IF p >= Len(text) \/ ~IsBibPathChar(text[p + 1]) THEN 0 ELSE 1 + BibPathRun(text, p + 1)

RECURSIVE SpaceRun(_, _)
SpaceRun(text, p) ==
    IF p >= Len(text) \/ text[p + 1] \notin SpaceChars THEN 0 ELSE 1 + SpaceRun(text, p + 1)

\* captures_iter with group 1, from the character index p on: after each marker
\* and the white space that follows it, the run of path characters
RECURSIVE CapturesFrom(_, _, _)
CapturesFrom(marker, text, p) ==
    IF p >= Len(text) THEN <<>>
    ELSE IF text[p + 1] # marker THEN CapturesFrom(marker, text, p + 1)
    ELSE LET from == p + 1 + SpaceRun(text, p + 1)
             to == from + BibPathRun(text, from)
         IN <<Slice(text, from, to)>> \o CapturesFrom(marker, text, to)

\* the paths the compiled pattern extracts from the buffer; a pattern without a
\* capture group yields none
BibPaths(src, text) ==
    IF ~RegexHasGroup(src) THEN <<>> ELSE CapturesFrom(src[1], text, 0)

\* the filter_map of citations over one parsed file, from its entry k on, with
\* room for at most room items: the entries it emits and whether it panicked
RECURSIVE CiteEntries(_, _, _, _, _, _)
CiteEntries(entries, k, room, word_prefix, params, checks) ==
    IF k > Len(entries) \/ room = 0 THEN Yield(FALSE, <<>>)
    ELSE
    LET b == entries[k]
    IN  IF ~starts_with(b.key, word_prefix)
        THEN CiteEntries(entries, k + 1, room, word_prefix, params, checks)
        ELSE IF params.character < StrLen(word_prefix) /\ checks THEN Yield(TRUE, <<>>)
        \* b.title().ok()? and b.author().ok()? return None from the closure
        ELSE IF ~b.has_title \/ ~b.has_author
        THEN CiteEntries(entries, k + 1, room, word_prefix, params, checks)
        ELSE LET rest == CiteEntries(entries, k + 1, room - 1, word_prefix, params, checks)
                 item == [Item("citations", "REFERENCE", <<"@">> \o b.key, b.key, TRUE,
                               params.line, WrappingSub(params.character, StrLen(word_prefix)),
                               params.character, word_prefix, word_prefix)
                          EXCEPT !.documentation = "rendered"]
             IN Yield(rest.panic, <<item>> \o rest.items)

\* the loop of citations over the extracted paths
RECURSIVE CiteFiles(_, _, _, _, _, _)
CiteFiles(st, bibpaths, word_prefix, params, checks, items) ==
    IF bibpaths = <<>> \/ Len(items) >= st.max_completion_items THEN Yield(FALSE, items)
    ELSE
    LET path == IF Contains(Head(bibpaths), <<"~">>)
                THEN ReplaceFirst(Head(bibpaths), <<"~">>, HomeDir) ELSE Head(bibpaths)
        bib == BibFile(path)
    IN  IF ~bib.readable \/ ~bib.parses
        THEN CiteFiles(st, Tail(bibpaths), word_prefix, params, checks, items)
        ELSE LET r == CiteEntries(bib.entries, 1, st.max_completion_items - Len(items),
                                  word_prefix, params, checks)
             IN IF r.panic THEN r
                ELSE CiteFiles(st, Tail(bibpaths), word_prefix, params, checks, items \o r.items)

\* BackendState::citations
citations(st, re, word_prefix, chars_prefix, doc, params, checks) ==
    IF re = None THEN Yield(FALSE, <<>>)
    ELSE CiteFiles(st, BibPaths(re[1], doc.text), word_prefix, params, checks, <<>>)

----------------------------------------------------------------------------
(* The merge of the providers and the arms of the request loop *)

\* what the CompletionRequest arm does with the reply channel: sends a failure,
\* sends an array, or panics before it sends anything
Failure == [tag |-> "Err", items |-> <<>>]
Array(items) == [tag |-> "Ok", items |-> items]
Panicked == [tag |-> "panic", items |-> <<>>]

NoItems == Yield(FALSE, <<>>)

\* BackendState::words: the item lists it can return, the words of the HashSet in
\* any order; the empty list when completion returns an error
words(st, ds, prefix, uri) ==
    IF completion(st, ds, prefix, uri) = {} THEN {<<>>} ELSE
    UNION { { [i \in 1..Len(ord) |->
                 Item("words", "TEXT", ord[i], <<>>, FALSE, 0, 0, 0, <<>>, <<>>)]
              : ord \in Orders(found) }
            : found \in completion(st, ds, prefix, uri) }

\* the chain with the path provider ahead of the others
base_completion_paths_first(st, ds, prefix, chars_prefix, params, checks) ==
    LET doc == ds[params.uri]
        tail_first ==
            IF st.feature_snippets /\ st.snippets_inline_by_word_tail /\ st.snippets_first
               /\ chars_prefix # <<>>
            THEN snippets_by_word_tail(st, chars_prefix, doc, params, checks) ELSE NoItems
        exact_first ==
            IF st.feature_snippets /\ ~st.snippets_inline_by_word_tail /\ st.snippets_first
               /\ prefix # <<>>
            THEN snippets(st, prefix, <<>>, TRUE, doc, params, checks) ELSE NoItems
        word_lists ==
            IF st.feature_words THEN words(st, ds, prefix, params.uri) ELSE {<<>>}
        tail_last ==
            IF st.feature_snippets /\ st.snippets_inline_by_word_tail /\ ~st.snippets_first
               /\ chars_prefix # <<>>
            THEN snippets_by_word_tail(st, chars_prefix, doc, params, checks) ELSE NoItems
        prefix_last ==
            IF st.feature_snippets /\ ~st.snippets_inline_by_word_tail /\ ~st.snippets_first
               /\ prefix # <<>>
            THEN snippets(st, prefix, <<>>, FALSE, doc, params, checks) ELSE NoItems
        unicode ==
            IF st.feature_unicode_input
            THEN unicode_input(st, prefix, chars_prefix, params, checks) ELSE NoItems
        path_lists ==
            IF st.feature_paths
            THEN paths(st, prefix, chars_prefix, params, params.uri, checks) ELSE {NoItems}
    IN  { Yield(tail_first.panic \/ exact_first.panic \/ tail_last.panic
                    \/ prefix_last.panic \/ unicode.panic \/ p.panic,
                p.items \o tail_first.items \o exact_first.items \o w
                    \o tail_last.items \o prefix_last.items \o unicode.items)
          : w \in word_lists, p \in path_lists }

\* the closure base_completion: the chain of the enabled providers
base_completion(st, ds, prefix, chars_prefix, params, checks) ==
    LET doc == ds[params.uri]
        tail_first ==
            IF st.feature_snippets /\ st.snippets_inline_by_word_tail /\ st.snippets_first
               /\ chars_prefix # <<>>
            THEN snippets_by_word_tail(st, chars_prefix, doc, params, checks) ELSE NoItems
        exact_first ==
            IF st.feature_snippets /\ ~st.snippets_inline_by_word_tail /\ st.snippets_first
               /\ prefix # <<>>
            THEN snippets(st, prefix, <<>>, TRUE, doc, params, checks) ELSE NoItems
        word_lists ==
            IF st.feature_words THEN words(st, ds, prefix, params.uri) ELSE {<<>>}
        tail_last ==
            IF st.feature_snippets /\ st.snippets_inline_by_word_tail /\ ~st.snippets_first
               /\ chars_prefix # <<>>
            THEN snippets_by_word_tail(st, chars_prefix, doc, params, checks) ELSE NoItems
        prefix_last ==
            IF st.feature_snippets /\ ~st.snippets_inline_by_word_tail /\ ~st.snippets_first
               /\ prefix # <<>>
            THEN snippets(st, prefix, <<>>, FALSE, doc, params, checks) ELSE NoItems
        unicode ==
            IF st.feature_unicode_input
            THEN unicode_input(st, prefix, chars_prefix, params, checks) ELSE NoItems
        path_lists ==
            IF st.feature_paths
            THEN paths(st, prefix, chars_prefix, params, params.uri, checks) ELSE {NoItems}
    IN  { Yield(tail_first.panic \/ exact_first.panic \/ tail_last.panic
                    \/ prefix_last.panic \/ unicode.panic \/ p.panic,
                tail_first.items \o exact_first.items \o w \o tail_last.items
                    \o prefix_last.items \o unicode.items \o p.items)
          : w \in word_lists, p \in path_lists }

Reply(y) == IF y.panic THEN Panicked ELSE Array(y.items)

\* the arm without its citation switch: the base chain answers every request
completion_request_unswitched(st, re, ds, params, checks) ==
    LET pre == get_prefix(ds, st.max_chars_prefix_len, params)
    IN  IF ~pre.ok THEN {Failure}
        ELSE IF pre.v.chars_prefix = <<>> \/ Head(pre.v.chars_prefix) = " "
        THEN {Array(<<>>)}
        ELSE {Reply(y) : y \in base_completion(st, ds, pre.v.prefix, pre.v.chars_prefix,
                                               params, checks)}

\* the CompletionRequest arm: every outcome the request can have
completion_request(st, re, ds, params, checks) ==
    LET pre == get_prefix(ds, st.max_chars_prefix_len, params)
    IN  IF ~pre.ok THEN {Failure}
        ELSE IF pre.v.chars_prefix = <<>> \/ Head(pre.v.chars_prefix) = " "
        THEN {Array(<<>>)}
        ELSE IF st.feature_citations
                /\ Contains(pre.v.chars_prefix, st.citation_prefix_trigger)
        THEN {Reply(citations(st, re, pre.v.prefix, pre.v.chars_prefix,
                              ds[params.uri], params, checks))}
        ELSE {Reply(y) : y \in base_completion(st, ds, pre.v.prefix, pre.v.chars_prefix,
                                               params, checks)}

\* BackendRequest
NewDoc(uri, text, language_id) ==
    [kind |-> "NewDoc", uri |-> uri, text |-> text, language_id |-> language_id]
SaveDoc(uri, text) == [kind |-> "SaveDoc", uri |-> uri, text |-> text]
ChangeDoc(uri, content_changes) ==
    [kind |-> "ChangeDoc", uri |-> uri, content_changes |-> content_changes]
ChangeConfiguration(payload) == [kind |-> "ChangeConfiguration", payload |-> payload]
CompletionRequest(id, params) == [kind |-> "CompletionRequest", id |-> id, params |-> params]

\* the record of the command handled last: the command, the state it was handled
\* in, whether its handler returned Ok and, for a completion, the reply
Handled(cmd, ok, response) ==
    [ cmd |-> cmd, settings |-> settings, re |-> citation_bibliography_re, docs |-> docs,
      ok |-> ok, response |-> response ]
NothingHandled ==
    [ cmd |-> [kind |-> "None"], settings |-> DefaultSettings, re |-> None,
      docs |-> [u \in URIs |-> NoDoc], ok |-> TRUE, response |-> Array(<<>>) ]

HandleNewDoc(cmd) ==
    /\ docs' = new_doc(docs, cmd)
    /\ last' = Handled(cmd, TRUE, Array(<<>>))
    /\ UNCHANGED <<settings, citation_bibliography_re, loop, oneshot>>

HandleSaveDoc(cmd) ==
    LET r == save_doc(docs, cmd)
    IN  /\ docs' = r.docs
        /\ last' = Handled(cmd, r.ok, Array(<<>>))
        /\ UNCHANGED <<settings, citation_bibliography_re, loop, oneshot>>

HandleChangeDoc(cmd) ==
    LET r == change_doc(docs, cmd)
    IN  /\ docs' = r.docs
        /\ last' = Handled(cmd, r.ok, Array(<<>>))
        /\ UNCHANGED <<settings, citation_bibliography_re, loop, oneshot>>

HandleChangeConfiguration(cmd) ==
    LET r == change_configuration(settings, citation_bibliography_re, cmd.payload)
    IN  /\ settings' = r.settings
        /\ citation_bibliography_re' = r.re
        /\ last' = Handled(cmd, r.ok, Array(<<>>))
        /\ UNCHANGED <<docs, loop, oneshot>>

\* a panic unwinds the loop task: the reply sender is dropped unused and the
\* loop is gone
HandleCompletionRequest(cmd) ==
    \E out \in completion_request(settings, citation_bibliography_re, docs, cmd.params,
                                  overflow_checks) :
        /\ loop' = IF out.tag = "panic" THEN "panicked" ELSE loop
        /\ oneshot' = [oneshot EXCEPT ![cmd.id] =
                          IF out.tag = "panic" THEN [@ EXCEPT !.tx_dropped = TRUE]
                          ELSE [@ EXCEPT !.sent = Append(@, out)]]
        /\ last' = Handled(cmd, out.tag = "Ok", out)
        /\ UNCHANGED <<settings, citation_bibliography_re, docs>>

----------------------------------------------------------------------------
(* The state after construction *)

\* the ids of the completion requests of a run
MaxRequests == 2
RequestIds == 1..MaxRequests

\* a reply channel: the values sent on it, and whether its sender was dropped
\* without a value
FreshChannel == [sent |-> <<>>, tx_dropped |-> FALSE]

\* BackendState::new, with the queue empty and no handler running
Constructed ==
    /\ settings = DefaultSettings
    /\ citation_bibliography_re = InitialRegex(DefaultSettings)
    /\ docs = [u \in URIs |-> NoDoc]
    /\ rx = <<>>
    /\ loop = "running"
    /\ last = NothingHandled
    /\ tasks = <<>>
    /\ oneshot = [i \in RequestIds |-> FreshChannel]
    /\ overflow_checks \in BOOLEAN

----------------------------------------------------------------------------
(* SpecSettings: one ChangeConfiguration handled in settings that an earlier *)
(* ChangeConfiguration left                                                 *)

\* the values a payload gives a key
PartialValues(f) ==
    CASE f = "max_completion_items" -> <<1, 2>>
      [] f = "max_chars_prefix_len" -> <<1, 3>>
      [] f = "max_path_chars" -> <<2, 4>>
      [] f = "min_chars_prefix_len" -> <<1, 3>>
      [] f = "citation_prefix_trigger" -> << <<"#">>, <<"(">> >>
      [] f = "citation_bibfile_extract_regexp" -> << <<"#", "(", "a", ")">>, <<"(">> >>
      [] OTHER -> <<TRUE, FALSE>>

\* a payload sets at most this many keys
MaxKeysSet == 2

PartialsOn(F) ==
    { [f \in PartialFields |-> IF f \in F THEN Some(PartialValues(f)[c[f]]) ELSE None]
      : c \in [F -> {1, 2}] }

ConfigPartials ==
    UNION { PartialsOn(F) : F \in {G \in SUBSET PartialFields : Cardinality(G) <= MaxKeysSet} }

ConfigPayloads == {Payload(p) : p \in ConfigPartials} \cup {MalformedPayload}

\* the payloads that led to the settings the checked message finds
EarlierPartials ==
    { EmptyPartial,
      [EmptyPartial EXCEPT !.citation_prefix_trigger = Some(<<"#">>)],
      [EmptyPartial EXCEPT !.citation_prefix_trigger = Some(<<"(">>)],
      [EmptyPartial EXCEPT !.max_path_chars = Some(4), !.feature_citations = Some(TRUE)],
      [EmptyPartial EXCEPT !.max_completion_items = Some(1), !.feature_words = Some(FALSE)] }

InitSettings ==
    /\ \E p \in EarlierPartials :
          LET r == change_configuration(DefaultSettings, InitialRegex(DefaultSettings),
                                        Payload(p))
          IN  settings = r.settings /\ citation_bibliography_re = r.re
    /\ docs = [u \in URIs |-> NoDoc]
    /\ rx = <<>>
    /\ loop = "running"
    /\ last = NothingHandled
    /\ tasks = <<>>
    /\ oneshot = [i \in RequestIds |-> FreshChannel]
    /\ overflow_checks \in BOOLEAN

\* the loop takes a ChangeConfiguration off the queue and handles it
ConfigurationCall ==
    /\ last.cmd.kind = "None"
    /\ \E payload \in ConfigPayloads : HandleChangeConfiguration(ChangeConfiguration(payload))
    /\ UNCHANGED <<rx, tasks, overflow_checks>>

NextSettings == ConfigurationCall

SpecSettings == InitSettings /\ [][NextSettings]_vars

\* C5: apply_partial_settings leaves every field the partial does not set as it was
C5_UnsetFieldsPreserved ==
    (last.cmd.kind = "ChangeConfiguration" /\ last.cmd.payload.wellformed) =>
        \A f \in SettingsFields :
            last.cmd.payload.partial[f] = None => settings[f] = last.settings[f]

\* C6: every key the partial sets has the provided value in the resulting settings
C6_SetFieldsTakeEffect ==
    (last.cmd.kind = "ChangeConfiguration" /\ last.cmd.payload.wellformed) =>
        \A f \in SettingsFields :
            last.cmd.payload.partial[f] # None => settings[f] = last.cmd.payload.partial[f][1]

\* C29: after a ChangeConfiguration message, handled with success or with a
\* failure, the compiled citation pattern is the compilation of the pattern the
\* current settings hold, and a payload that does not parse or whose pattern
\* does not compile leaves the settings and the compiled pattern as they were
C29_RegexInStep ==
    last.cmd.kind = "ChangeConfiguration" =>
        /\ citation_bibliography_re = Some(settings.citation_bibfile_extract_regexp)
        /\ RegexValid(settings.citation_bibfile_extract_regexp)
        /\ ~last.ok => (settings = last.settings /\ citation_bibliography_re = last.re)

----------------------------------------------------------------------------
(* SpecChange: one ChangeDoc handled for a document that is open *)

\* every text of at most n characters over an alphabet
TextsUpTo(alphabet, n) == UNION { [1..k -> alphabet] : k \in 0..n }

\* every list of lo..hi elements of a set
ListsOf(S, lo, hi) == UNION { [1..k -> S] : k \in lo..hi }

MaxChangeDocLen == 3
MaxChangeLine == 2
MaxChangeCol == 3
MaxChanges == 2

ChangeDocTexts == TextsUpTo({"a", "b", "\n"}, MaxChangeDocLen)
ChangePositions ==
    { Position(l, c) : l \in 0..MaxChangeLine, c \in 0..MaxChangeCol }
ChangeInserts == { <<>>, <<"b">>, <<"\n", "a">> }

\* a single change: every range over the positions, or no range
SingleChanges ==
    { Change(Some(Range(s, e)), t) : s \in ChangePositions, e \in ChangePositions,
                                       t \in ChangeInserts }
    \cup { Change(None, t) : t \in ChangeInserts }

\* the changes that lists are made of: an insertion, a deletion, a range
\* behind the end of the text, a reversed range, a line that does not exist
\* and a change without a range
ListChanges ==
    { Change(Some(Range(Position(0, 0), Position(0, 0))), <<"b">>),
      Change(Some(Range(Position(0, 0), Position(0, 1))), <<>>),
      Change(Some(Range(Position(0, MaxChangeCol + 1), Position(0, MaxChangeCol + 1))),
             <<"a">>),
      Change(Some(Range(Position(0, 1), Position(0, 0))), <<"a">>),
      Change(Some(Range(Position(MaxChangeDocLen + 2, 0), Position(0, 0))), <<"a", "b">>),
      Change(None, <<"a">>) }

ChangeDocCmds ==
    { ChangeDoc("u1", <<c>>) : c \in SingleChanges }
    \cup { ChangeDoc("u1", cs) : cs \in ListsOf(ListChanges, 2, MaxChanges) }
    \cup { ChangeDoc("u2", <<c>>) : c \in ListChanges }

InitChange ==
    /\ settings = DefaultSettings
    /\ citation_bibliography_re = InitialRegex(DefaultSettings)
    /\ \E t \in ChangeDocTexts :
          docs = [u \in URIs |-> IF u = "u1" THEN Document(t, "python") ELSE NoDoc]
    /\ rx = <<>>
    /\ loop = "running"
    /\ last = NothingHandled
    /\ tasks = <<>>
    /\ oneshot = [i \in RequestIds |-> FreshChannel]
    /\ overflow_checks \in BOOLEAN

\* the loop takes a ChangeDoc off the queue and handles it
ChangeCall ==
    /\ last.cmd.kind = "None"
    /\ \E cmd \in ChangeDocCmds : HandleChangeDoc(cmd)
    /\ UNCHANGED <<rx, tasks, overflow_checks>>

NextChange == ChangeCall

SpecChange == InitChange /\ [][NextChange]_vars

\* C7: a change without a range replaces the whole text: once the last change
\* of a notification has no range, the document's text is that change's text
C7_NoRangeReplacesText ==
    (/\ last.cmd.kind = "ChangeDoc"
     /\ last.docs[last.cmd.uri].open
     /\ last.cmd.content_changes[Len(last.cmd.content_changes)].range = None) =>
        docs[last.cmd.uri].text
            = last.cmd.content_changes[Len(last.cmd.content_changes)].text

\* C8: every change of a notification is applied, in list order, each to the
\* text the one before it left; none is skipped because of an earlier one
C8_EveryChangeApplied ==
    (last.cmd.kind = "ChangeDoc" /\ last.docs[last.cmd.uri].open) =>
        docs[last.cmd.uri].text
            = ChangeAll(last.docs[last.cmd.uri].text, last.cmd.content_changes).text

\* the notification the last step handled carried one change, with a range, for
\* a document that was open
OneRangedChange ==
    /\ last.cmd.kind = "ChangeDoc"
    /\ last.docs[last.cmd.uri].open
    /\ Len(last.cmd.content_changes) = 1
    /\ last.cmd.content_changes[1].range # None

\* the character index a position resolves to in text, when its line exists
Resolved(text, pos) ==
    LET ls == try_line_to_char(text, pos.line)
    IN  IF ls.ok THEN Ok(ls.v + pos.character) ELSE Err

\* C21: a change whose range resolves to the character indices a and b, with
\* a <= b <= L in a text of L characters, leaves old[0..a) + s + old[b..L),
\* which is L - (b - a) + len(s) characters long, and leaves the language
\* identifier of the document and the other document as they were
C21_EditLaw ==
    OneRangedChange =>
        LET old == last.docs[last.cmd.uri].text
            change == last.cmd.content_changes[1]
            a == Resolved(old, change.range[1].start)
            b == Resolved(old, change.range[1].end)
            now == docs[last.cmd.uri]
        IN  (a.ok /\ b.ok /\ a.v <= b.v /\ b.v <= Len(old)) =>
                /\ last.ok
                /\ now.text = SubSeq(old, 1, a.v) \o change.text
                                  \o SubSeq(old, b.v + 1, Len(old))
                /\ Len(now.text) = Len(old) - (b.v - a.v) + Len(change.text)
                /\ now.open /\ now.language_id = last.docs[last.cmd.uri].language_id
                /\ \A v \in URIs \ {last.cmd.uri} : docs[v] = last.docs[v]

\* C21 happens: a change took a stretch out of the middle of the text and put
\* a text in its place
C21_Witness ==
    /\ OneRangedChange
    /\ LET old == last.docs[last.cmd.uri].text
           change == last.cmd.content_changes[1]
           a == Resolved(old, change.range[1].start)
           b == Resolved(old, change.range[1].end)
       IN  /\ a.ok /\ b.ok
           /\ 0 < a.v /\ a.v < b.v /\ b.v < Len(old)
           /\ change.text # <<>>
           /\ change.range[1].start.line > 0

\* C22: a change whose start resolves to a character index a inside the text
\* and whose end resolves to none (its line does not exist, or its index lies
\* beyond the text) leaves old[0..a) + s, whatever the start line and the start
\* column are
C22_StartOnly ==
    OneRangedChange =>
        LET old == last.docs[last.cmd.uri].text
            change == last.cmd.content_changes[1]
            a == Resolved(old, change.range[1].start)
            b == Resolved(old, change.range[1].end)
        IN  (a.ok /\ a.v <= Len(old) /\ (~b.ok \/ b.v > Len(old))) =>
                /\ last.ok
                /\ docs[last.cmd.uri].text = SubSeq(old, 1, a.v) \o change.text

\* C22 happens: the start lies inside the text, on a line after the first, the
\* end lies beyond the text, and a tail of the text is removed
C22_Witness ==
    /\ OneRangedChange
    /\ LET old == last.docs[last.cmd.uri].text
           change == last.cmd.content_changes[1]
           a == Resolved(old, change.range[1].start)
           b == Resolved(old, change.range[1].end)
       IN  /\ a.ok /\ (~b.ok \/ b.v > Len(old))
           /\ 0 < a.v /\ a.v < Len(old)
           /\ change.range[1].start.line > 0
           /\ change.text # <<>>
           /\ docs[last.cmd.uri].text = SubSeq(old, 1, a.v) \o change.text

----------------------------------------------------------------------------
(* SpecCompletion: one CompletionRequest handled, in settings that one       *)
(* ChangeConfiguration left and with documents that NewDoc messages opened   *)

\* the second partial laid over the first: its set keys win
Overlay(p, q) == [f \in PartialFields |-> IF q[f] # None THEN q[f] ELSE p[f]]

\* every assignment of the five feature flags
FlagPartials ==
    { [EmptyPartial EXCEPT !.feature_words = Some(w), !.feature_snippets = Some(sn),
                           !.feature_unicode_input = Some(un), !.feature_paths = Some(pa),
                           !.feature_citations = Some(ci)]
      : w \in BOOLEAN, sn \in BOOLEAN, un \in BOOLEAN, pa \in BOOLEAN, ci \in BOOLEAN }

\* what the payload sets besides the flags
TuningPartials ==
    { EmptyPartial,
      [EmptyPartial EXCEPT !.max_completion_items = Some(1)],
      [EmptyPartial EXCEPT !.max_completion_items = Some(0),
                           !.snippets_inline_by_word_tail = Some(TRUE)],
      [EmptyPartial EXCEPT !.snippets_first = Some(TRUE)],
      [EmptyPartial EXCEPT !.snippets_first = Some(TRUE),
                           !.snippets_inline_by_word_tail = Some(TRUE),
                           !.min_chars_prefix_len = Some(1),
                           !.max_completion_items = Some(2)],
      [EmptyPartial EXCEPT !.max_path_chars = Some(2)] }

CompletionPartials == { Overlay(f, t) : f \in FlagPartials, t \in TuningPartials }

\* the texts of the requested document: every short text over a small
\* alphabet, and texts that make each provider fire
MaxCompletionDocLen == 2
ProviderTexts ==
    { <<"%", "/", "b", " ", "@", "a", " ", "@", "b">>,
      <<"/", "a", "/", " ", ".", "/", "b", " ", "(", "/", "b", " ", "~", "/", " ",
        ".", ".", "/">>,
      <<"laquo", "/", "a">>,
      <<"lambda", "+", "b", "a">>,
      <<"+", "a", "a">>,
      <<"a", "b", " ", "A", "b", "\n", "a", "a", "b", " ", "a">> }
CompletionDocs ==
    { Document(t, "python")
      : t \in TextsUpTo({"a", "b", " "}, MaxCompletionDocLen) \cup ProviderTexts }
    \cup { Document(<<"a", "b", " ", "a">>, "c") }

\* the other document, when it is open
OtherDocs == { NoDoc, Document(<<"a", "b", "b", " ", "A", "a", " ", "Lambda">>, "c") }

InitCompletion ==
    /\ \E p \in CompletionPartials :
          LET r == change_configuration(DefaultSettings, InitialRegex(DefaultSettings),
                                        Payload(p))
          IN  settings = r.settings /\ citation_bibliography_re = r.re
    /\ \E d1 \in CompletionDocs, d2 \in OtherDocs :
          docs = [u \in URIs |-> IF u = "u1" THEN d1 ELSE d2]
    /\ rx = <<>>
    /\ loop = "running"
    /\ last = NothingHandled
    /\ tasks = <<>>
    /\ oneshot = [i \in RequestIds |-> FreshChannel]
    /\ overflow_checks \in BOOLEAN

\* the cursors of a request for u1: on every line up to the one past the last,
\* every column up to one behind the end of the text
CursorsOf(text) ==
    { Position(l, c) : l \in 0..len_lines(text), c \in 0..(Len(text) + 1) }

CompletionRequests ==
    { CompletionRequest(1, CompletionParams("u1", pos.line, pos.character))
      : pos \in CursorsOf(docs["u1"].text) }
    \cup { CompletionRequest(1, CompletionParams("u2", 0, c)) : c \in {2, 3} }

\* the loop takes a CompletionRequest off the queue and handles it
CompletionCall ==
    /\ last.cmd.kind = "None"
    /\ \E cmd \in CompletionRequests : HandleCompletionRequest(cmd)
    /\ UNCHANGED <<rx, tasks, overflow_checks>>

NextCompletion == CompletionCall

SpecCompletion == InitCompletion /\ [][NextCompletion]_vars

\* the request the last step handled was answered with an array
AnsweredWithArray ==
    last.cmd.kind = "CompletionRequest" /\ last.response.tag = "Ok"

\* C1: the array of a completion response holds at most max_completion_items items
C1_ResponseWithinMax ==
    AnsweredWithArray => Len(last.response.items) <= last.settings.max_completion_items

\* the prefixes get_prefix gave the request the last step handled
RequestPrefix ==
    get_prefix(last.docs, last.settings.max_chars_prefix_len, last.cmd.params)

\* the last step handled a request that the citation switch sent to citations
CitationsFire ==
    /\ last.cmd.kind = "CompletionRequest"
    /\ last.settings.feature_citations
    /\ LET pre == RequestPrefix
       IN  /\ pre.ok
           /\ pre.v.chars_prefix # <<>>
           /\ Contains(pre.v.chars_prefix, last.settings.citation_prefix_trigger)

\* C9: when feature_citations is on and char_prefix contains the trigger, every
\* item of the response comes from the citation provider
C9_CitationsExclusive ==
    (CitationsFire /\ AnsweredWithArray) =>
        \A i \in DOMAIN last.response.items :
            last.response.items[i].provider = "citations"

\* C9 happens: citations answered with at least one item a request that the
\* base chain, every other provider enabled, would have answered with items too
C9_Witness ==
    /\ CitationsFire /\ AnsweredWithArray
    /\ last.response.items # <<>>
    /\ last.settings.feature_words /\ last.settings.feature_snippets
    /\ last.settings.feature_unicode_input /\ last.settings.feature_paths
    /\ \E y \in base_completion(last.settings, last.docs, RequestPrefix.v.prefix,
                                RequestPrefix.v.chars_prefix, last.cmd.params,
                                overflow_checks) : y.items # <<>>

\* the keys of the entries, in file order, that start with word_prefix, over the
\* bibliography files that can be read and parsed
RECURSIVE MatchingKeys(_, _)
MatchingKeys(bibpaths, word_prefix) ==
    IF bibpaths = <<>> THEN <<>>
    ELSE LET path == IF Contains(Head(bibpaths), <<"~">>)
                     THEN ReplaceFirst(Head(bibpaths), <<"~">>, HomeDir) ELSE Head(bibpaths)
             bib == BibFile(path)
             hit == SelectSeq(bib.entries, LAMBDA b : starts_with(b.key, word_prefix))
         IN [i \in 1..Len(hit) |-> hit[i].key] \o MatchingKeys(Tail(bibpaths), word_prefix)

\* C10: citations emits one item for every entry whose key starts with
\* word_prefix, up to max_completion_items, entries without a title or an
\* author included: label "@" + key, insertion text the bare key
C10_EveryMatchingEntryEmitted ==
    (CitationsFire /\ AnsweredWithArray /\ last.re # None) =>
        LET keys == Take(MatchingKeys(BibPaths(last.re[1], last.docs[last.cmd.params.uri].text),
                                      RequestPrefix.v.prefix),
                         last.settings.max_completion_items)
            items == last.response.items
        IN  /\ Len(items) = Len(keys)
            /\ \A i \in DOMAIN items :
                  items[i].label = <<"@">> \o keys[i] /\ items[i].new_text = keys[i]

\* the last step handled a request whose word prefix is empty and whose char
\* prefix is not
EmptyWordPrefix ==
    /\ last.cmd.kind = "CompletionRequest"
    /\ RequestPrefix.ok
    /\ RequestPrefix.v.prefix = <<>>
    /\ RequestPrefix.v.chars_prefix # <<>>

\* the items of the response that come from provider
ItemsOf(provider) ==
    SelectSeq(last.response.items, LAMBDA it : it.provider = provider)

\* the char-prefix-based providers of the base chain that are enabled give the
\* response the items they yield for the request the last step handled
CharProvidersContribute ==
    LET st == last.settings
        pre == RequestPrefix.v
        doc == last.docs[last.cmd.params.uri]
    IN  /\ (st.feature_snippets /\ st.snippets_inline_by_word_tail) =>
               ItemsOf("snippets") =
                   snippets_by_word_tail(st, pre.chars_prefix, doc, last.cmd.params,
                                         overflow_checks).items
        /\ st.feature_unicode_input =>
               ItemsOf("unicode_input") =
                   unicode_input(st, pre.prefix, pre.chars_prefix, last.cmd.params,
                                 overflow_checks).items
        /\ st.feature_paths =>
               \E y \in paths(st, pre.prefix, pre.chars_prefix, last.cmd.params,
                              last.cmd.params.uri, overflow_checks) :
                   ItemsOf("paths") = y.items

ProviderRank(provider, snippets_first) ==
    CASE provider = "snippets" -> IF snippets_first THEN 1 ELSE 2
      [] provider = "words" -> IF snippets_first THEN 2 ELSE 1
      [] provider = "unicode_input" -> 3
      [] provider = "paths" -> 4
      [] OTHER -> 5

\* C12: in a response that citations did not produce the items stand in provider
\* order: snippets before words when snippets_first is on and words before
\* snippets when it is off, then the unicode-input items, then the path items
C12_ProviderOrder ==
    (AnsweredWithArray /\ last.response.items # <<>> /\ ~CitationsFire) =>
        \A i, j \in DOMAIN last.response.items :
            i < j => ProviderRank(last.response.items[i].provider,
                                  last.settings.snippets_first)
                     <= ProviderRank(last.response.items[j].provider,
                                     last.settings.snippets_first)

\* C12 happens: one response holds items of all four providers of the chain
C12_Witness ==
    /\ AnsweredWithArray /\ ~CitationsFire
    /\ ItemsOf("words") # <<>> /\ ItemsOf("snippets") # <<>>
    /\ ItemsOf("unicode_input") # <<>> /\ ItemsOf("paths") # <<>>

\* the entries of the unicode-input table whose trigger starts with a tail of
\* chars_prefix that is at least min_chars_prefix_len long
TriggersOfTails(chars_prefix, min_chars_prefix_len) ==
    { UnicodeInputTable[k] : k \in
        { k \in DOMAIN UnicodeInputTable :
            \E i \in 0..(Len(chars_prefix) - 1) :
                LET part == Slice(chars_prefix, i, Len(chars_prefix))
                IN  /\ StrLen(part) >= min_chars_prefix_len
                    /\ starts_with(UnicodeInputTable[k].prefix, part) } }

\* C13: under the default settings a request whose char_prefix has a tail, at
\* least min_chars_prefix_len long, that starts a trigger of the unicode-input
\* table is answered with an item that inserts the glyph of that trigger
C13_UnicodeInputByDefault ==
    (/\ last.cmd.kind = "CompletionRequest"
     /\ last.settings = DefaultSettings
     /\ RequestPrefix.ok) =>
        \A u \in TriggersOfTails(RequestPrefix.v.chars_prefix,
                                 last.settings.min_chars_prefix_len) :
            /\ AnsweredWithArray
            /\ \E i \in DOMAIN last.response.items :
                   /\ last.response.items[i].provider = "unicode_input"
                   /\ last.response.items[i].new_text = u.body

\* the scope of the snippet s admits the document doc
InScope(s, doc) ==
    s.scope = None \/ s.scope[1] = {} \/ doc.language_id \in s.scope[1]

\* the scope of the snippet s names one language
SingleLanguage(s) == s.scope # None /\ Cardinality(s.scope[1]) = 1

\* the response holds an item of the snippet s
Offered(s) ==
    \E i \in DOMAIN last.response.items :
        /\ last.response.items[i].provider = "snippets"
        /\ last.response.items[i].label = s.prefix
        /\ last.response.items[i].new_text = s.body

\* the last step let snippets answer a request whose word prefix is the whole
\* trigger of s1 and of s2, two snippets scoped to two different languages, and
\* the snippet items stayed below max_completion_items
SameTriggerAsked(s1, s2) ==
    /\ s1.prefix = s2.prefix
    /\ SingleLanguage(s1) /\ SingleLanguage(s2) /\ s1.scope # s2.scope
    /\ AnsweredWithArray
    /\ last.settings.feature_snippets
    /\ s1.prefix = RequestPrefix.v.prefix
    /\ ~CitationsFire
    /\ Len(ItemsOf("snippets")) < last.settings.max_completion_items

\* C14: every snippet item of a response belongs to a snippet whose scope is
\* absent, is empty or contains the language of the document of the request; of
\* two snippets with one trigger and two single-language scopes the response
\* holds the one whose scope contains that language, and not the other
C14_SnippetsInScope ==
    AnsweredWithArray =>
        LET doc == last.docs[last.cmd.params.uri]
        IN  /\ \A i \in DOMAIN last.response.items :
                   last.response.items[i].provider = "snippets" =>
                       \E k \in DOMAIN SnippetTable :
                           /\ SnippetTable[k].prefix = last.response.items[i].label
                           /\ SnippetTable[k].body = last.response.items[i].new_text
                           /\ InScope(SnippetTable[k], doc)
            /\ \A k1, k2 \in DOMAIN SnippetTable :
                   (SameTriggerAsked(SnippetTable[k1], SnippetTable[k2])
                    /\ InScope(SnippetTable[k1], doc)) =>
                       Offered(SnippetTable[k1]) /\ ~Offered(SnippetTable[k2])

\* C14 happens: a request for the trigger shared by a python snippet and a c
\* snippet, made in a python document, is answered with the python snippet
C14_Witness ==
    /\ SameTriggerAsked(SnippetTable[2], SnippetTable[3])
    /\ last.docs[last.cmd.params.uri].language_id = "python"
    /\ Offered(SnippetTable[2]) /\ ~Offered(SnippetTable[3])

\* the word w stands in text at the 0-based offset p, from a word start to the
\* end of its run of word characters
WholeWordAt(w, text, p) ==
    /\ p + Len(w) <= Len(text)
    /\ Slice(text, p, p + Len(w)) = w
    /\ p = 0 \/ ~char_is_word(text[p])
    /\ p + Len(w) = Len(text) \/ ~char_is_word(text[p + Len(w) + 1])

\* C15: every word the word provider returns for a non-empty word_prefix is a
\* substring of the text of an open document, starts there at offset 0 or right
\* after a non-word character, runs to the end of its run of word characters
\* and starts with word_prefix under caseless comparison
C15_SearchSoundness ==
    (AnsweredWithArray /\ ItemsOf("words") # <<>>) =>
        LET prefix == RequestPrefix.v.prefix
        IN  \A i \in DOMAIN last.response.items :
            last.response.items[i].provider = "words" =>
                LET w == last.response.items[i].label
                IN  /\ \E u \in URIs :
                           /\ last.docs[u].open
                           /\ \E p \in 0..Len(last.docs[u].text) :
                                  WholeWordAt(w, last.docs[u].text, p)
                    /\ Len(w) >= Len(prefix)
                    /\ FoldStr(Slice(w, 0, Len(prefix))) = FoldStr(prefix)

\* C15 happens: a returned word that stands only in the other document, after a
\* non-word character, and whose letters differ in case from those typed
C15_Witness ==
    /\ AnsweredWithArray /\ RequestPrefix.ok /\ RequestPrefix.v.prefix # <<>>
    /\ \E i \in DOMAIN last.response.items :
           LET w == last.response.items[i].label
               prefix == RequestPrefix.v.prefix
               own == last.docs[last.cmd.params.uri].text
           IN  /\ last.response.items[i].provider = "words"
               /\ Slice(w, 0, Len(prefix)) # prefix
               /\ Len(w) > Len(prefix)
               /\ \A p \in 0..Len(own) : ~WholeWordAt(w, own, p)
               /\ ~WholeWordAt(w, last.docs["u2"].text, 0)

\* the whole words of the open documents that differ from prefix only in the
\* case of their letters
CaseVariants(ds, prefix) ==
    UNION { { Slice(ds[u].text, p, p + Len(prefix)) :
                p \in { q \in 0..(Len(ds[u].text) - Len(prefix)) :
                          LET w == Slice(ds[u].text, q, q + Len(prefix))
                          IN  /\ WholeWordAt(w, ds[u].text, q)
                              /\ FoldStr(w) = FoldStr(prefix)
                              /\ w # prefix } }
            : u \in {v \in URIs : ds[v].open} }

\* the last step let the word provider answer a request with a non-empty word
\* prefix, and the words it gave stayed below max_completion_items
WordsAsked ==
    /\ AnsweredWithArray /\ RequestPrefix.ok /\ RequestPrefix.v.prefix # <<>>
    /\ last.settings.feature_words /\ ~CitationsFire
    /\ Len(ItemsOf("words")) < last.settings.max_completion_items

\* C16: no word completion is equal to word_prefix, and a word of an open
\* document that differs from word_prefix only in letter case is a word
\* completion of the response
C16_NoSelfSuggestion ==
    /\ (AnsweredWithArray /\ RequestPrefix.ok) =>
           \A i \in DOMAIN last.response.items :
               last.response.items[i].provider = "words" =>
                   last.response.items[i].label # RequestPrefix.v.prefix
    /\ WordsAsked =>
           \A w \in CaseVariants(last.docs, RequestPrefix.v.prefix) :
               \E i \in DOMAIN last.response.items :
                   /\ last.response.items[i].provider = "words"
                   /\ last.response.items[i].label = w

\* run is the longest stretch of text that ends at the 0-based index cursor, is
\* made of characters of the set kind and is at most cap characters long
MaximalRunAt(run, text, cursor, kind, cap) ==
    LET start == cursor - Len(run)
    IN  /\ start >= 0
        /\ run = Slice(text, start, cursor)
        /\ \A k \in DOMAIN run : run[k] \in kind
        /\ Len(run) <= cap
        /\ start = 0 \/ text[start] \notin kind \/ Len(run) = cap

\* the request the last step handled names an open document, one of its lines
\* and a column that lies within the text
CursorInside ==
    LET doc == last.docs[last.cmd.params.uri]
    IN  /\ doc.open
        /\ last.cmd.params.line < len_lines(doc.text)
        /\ try_line_to_char(doc.text, last.cmd.params.line).v + last.cmd.params.character
               <= Len(doc.text)

CursorAfterSpace ==
    /\ last.cmd.kind = "CompletionRequest"
    /\ LET text == last.docs[last.cmd.params.uri].text
           pre == RequestPrefix
       IN  pre.ok /\ (pre.v.cursor = 0 \/ text[pre.v.cursor] \in SpaceChars)

\* C19: a request whose cursor stands at the start of the buffer or right after
\* a space, a tab or a newline is answered with a success that carries the
\* empty array, whatever the feature flags are
C19_EmptyCharPrefix ==
    CursorAfterSpace => last.response = Array(<<>>)

\* C19 happens: the cursor follows a space inside a line that holds the citation
\* trigger, with the citation provider and every other provider enabled
C19_Witness ==
    /\ CursorAfterSpace
    /\ last.response = Array(<<>>)
    /\ RequestPrefix.v.cursor > 0
    /\ \E k \in 1..RequestPrefix.v.cursor :
           last.docs[last.cmd.params.uri].text[k] = "@"
    /\ last.settings.feature_words /\ last.settings.feature_snippets
    /\ last.settings.feature_unicode_input /\ last.settings.feature_paths
    /\ last.settings.feature_citations

\* C23: the replace range of every item of the snippet, unicode-input, path and
\* citation providers lies on the cursor line, ends at the cursor column and
\* starts as many columns before it as the matched prefix or tail has
\* characters: the start is computed without overflow of the u32 column, also
\* when the matched text holds multi-byte characters
C23_ReplaceRange ==
    (last.cmd.kind = "CompletionRequest" /\ RequestPrefix.ok) =>
        /\ last.response.tag # "panic"
        /\ \A i \in DOMAIN last.response.items :
               LET item == last.response.items[i]
               IN  item.has_edit =>
                       /\ item.line = last.cmd.params.line
                       /\ item.end = last.cmd.params.character
                       /\ item.start >= 0 /\ item.start <= item.end
                       /\ \E k \in 0..Len(RequestPrefix.v.chars_prefix) :
                              item.start = item.end - k

\* the items of the word provider in the response of the last step
WordItems == ItemsOf("words")

\* C27: the word provider returns pairwise distinct words and never more than
\* max_completion_items of them, whatever max_completion_items is (0 and 1
\* included) and however many documents are open
C27_WordsDistinctAndCapped ==
    (last.cmd.kind = "CompletionRequest" /\ last.settings.feature_words) =>
        /\ \A i, j \in DOMAIN WordItems :
               WordItems[i].label = WordItems[j].label => i = j
        /\ Len(WordItems) <= last.settings.max_completion_items

\* the distinct words of a text that search accepts for the prefix, when no cap
\* stops it
AllMatches(prefix, text) == search(prefix, text, Len(text) + 1, {})

WordsPartials ==
    { [EmptyPartial EXCEPT !.feature_snippets = Some(FALSE),
                           !.max_completion_items = max]
      : max \in {None, Some(0), Some(1), Some(2)} }

InitWords ==
    /\ \E p \in WordsPartials :
          LET r == change_configuration(DefaultSettings, InitialRegex(DefaultSettings),
                                        Payload(p))
          IN  settings = r.settings /\ citation_bibliography_re = r.re
    /\ \E d1 \in CompletionDocs, d2 \in OtherDocs :
          docs = [u \in URIs |-> IF u = "u1" THEN d1 ELSE d2]
    /\ rx = <<>>
    /\ loop = "running"
    /\ last = NothingHandled
    /\ tasks = <<>>
    /\ oneshot = [i \in RequestIds |-> FreshChannel]
    /\ overflow_checks \in BOOLEAN

NextWords == CompletionCall

SpecWords == InitWords /\ [][NextWords]_vars

----------------------------------------------------------------------------
(* Spec: the LSP boundary and the request loop. The boundary polls a handler *)
(* for the first time when its message arrives, in arrival order; a handler  *)
(* that awaits the client's log channel before it sends can be parked there  *)
(* while later handlers run.                                                 *)

\* the client sends at most this many messages
MaxMessages == 3

\* a handler of the boundary: what it is, where it stands, the BackendRequest
\* it sends and what it returned to the client
Task(kind, pc, cmd, result) == [kind |-> kind, pc |-> pc, cmd |-> cmd, result |-> result]

OpenTexts == { <<"a", "b", " ", "a">>, <<"lambda">>, <<"laquo", "/", "a">> }
OpenMessages == { NewDoc(u, t, "python") : u \in URIs, t \in OpenTexts }
SaveMessages == { SaveDoc("u1", None), SaveDoc("u1", Some(<<"a", "a">>)) }
ChangeMessages ==
    { ChangeDoc("u1", <<Change(Some(Range(Position(0, 0), Position(0, 1))), <<"b">>)>>),
      ChangeDoc("u1", <<Change(None, <<"b">>)>>) }
ConfigurationMessages ==
    { ChangeConfiguration(Payload([EmptyPartial EXCEPT !.feature_paths = Some(TRUE)])),
      ChangeConfiguration(MalformedPayload) }
CompletionCursors == { CompletionParams("u1", 0, c) : c \in {1, 3, 4} }

\* the id of the next completion request: one more than the requests so far
NextRequestId ==
    Cardinality({i \in DOMAIN tasks : tasks[i].kind = "completion"}) + 1

\* mpsc send fails once the loop task, and with it the receiver, is gone
SendRequest(cmd) == rx' = IF loop = "running" THEN Append(rx, cmd) ELSE rx

\* log_info(..).await on first poll: the client's channel takes the message at
\* once, or it is full and the handler is parked before its send
LogThenSend(kind, cmd) ==
    \/ /\ SendRequest(cmd)
       /\ tasks' = Append(tasks, Task(kind, "done", cmd, "none"))
    \/ /\ tasks' = Append(tasks, Task(kind, "log", cmd, "none"))
       /\ UNCHANGED rx

\* Backend::did_open
DidOpen ==
    /\ Len(tasks) < MaxMessages
    /\ \E cmd \in OpenMessages : LogThenSend("did_open", cmd)
    /\ UNCHANGED <<settings, citation_bibliography_re, docs, loop, last, oneshot, overflow_checks>>

\* Backend::did_save
DidSave ==
    /\ Len(tasks) < MaxMessages
    /\ \E cmd \in SaveMessages :
          /\ SendRequest(cmd)
          /\ tasks' = Append(tasks, Task("did_save", "done", cmd, "none"))
    /\ UNCHANGED <<settings, citation_bibliography_re, docs, loop, last, oneshot, overflow_checks>>

\* Backend::did_change
DidChange ==
    /\ Len(tasks) < MaxMessages
    /\ \E cmd \in ChangeMessages :
          /\ SendRequest(cmd)
          /\ tasks' = Append(tasks, Task("did_change", "done", cmd, "none"))
    /\ UNCHANGED <<settings, citation_bibliography_re, docs, loop, last, oneshot, overflow_checks>>

\* Backend::did_change_configuration
DidChangeConfiguration ==
    /\ Len(tasks) < MaxMessages
    /\ \E cmd \in ConfigurationMessages : LogThenSend("did_change_configuration", cmd)
    /\ UNCHANGED <<settings, citation_bibliography_re, docs, loop, last, oneshot, overflow_checks>>

\* a parked did_open or did_change_configuration resumes and sends
LogDone ==
    /\ \E i \in DOMAIN tasks :
          /\ tasks[i].pc = "log"
          /\ SendRequest(tasks[i].cmd)
          /\ tasks' = [tasks EXCEPT ![i].pc = "done"]
    /\ UNCHANGED <<settings, citation_bibliography_re, docs, loop, last, oneshot, overflow_checks>>

\* Backend::completion up to rx.await: a failed send returns the internal error
Completion ==
    /\ Len(tasks) < MaxMessages
    /\ NextRequestId <= MaxRequests
    /\ \E params \in CompletionCursors :
          LET cmd == CompletionRequest(NextRequestId, params)
          IN  /\ SendRequest(cmd)
              /\ tasks' = Append(tasks,
                                 IF loop = "running" THEN Task("completion", "await", cmd, "none")
                                 ELSE Task("completion", "done", cmd, "internal_error"))
    /\ UNCHANGED <<settings, citation_bibliography_re, docs, loop, last, oneshot, overflow_checks>>

\* the reply sender of request id is gone without a value: it was dropped by
\* the panic, or it sits in the queue the panicked loop left behind
SenderGone(id) ==
    \/ oneshot[id].tx_dropped
    \/ /\ loop = "panicked"
       /\ \E k \in DOMAIN rx : rx[k].kind = "CompletionRequest" /\ rx[k].id = id

\* Backend::completion from rx.await on
CompletionReturns ==
    /\ \E i \in DOMAIN tasks :
          /\ tasks[i].pc = "await"
          /\ \/ /\ oneshot[tasks[i].cmd.id].sent # <<>>
                /\ tasks' = [tasks EXCEPT ![i].pc = "done",
                                          ![i].result =
                                              IF oneshot[tasks[i].cmd.id].sent[1].tag = "Ok"
                                              THEN "array" ELSE "internal_error"]
             \/ /\ SenderGone(tasks[i].cmd.id)
                /\ tasks' = [tasks EXCEPT ![i].pc = "done", ![i].result = "internal_error"]
    /\ UNCHANGED <<settings, citation_bibliography_re, docs, rx, loop, last, oneshot,
                   overflow_checks>>

\* BackendState::start: the loop takes the next message off the queue and runs
\* its arm
Dequeued(kind) == loop = "running" /\ rx # <<>> /\ Head(rx).kind = kind

LoopNewDoc ==
    /\ Dequeued("NewDoc") /\ HandleNewDoc(Head(rx))
    /\ rx' = Tail(rx) /\ UNCHANGED <<tasks, overflow_checks>>

LoopSaveDoc ==
    /\ Dequeued("SaveDoc") /\ HandleSaveDoc(Head(rx))
    /\ rx' = Tail(rx) /\ UNCHANGED <<tasks, overflow_checks>>

LoopChangeDoc ==
    /\ Dequeued("ChangeDoc") /\ HandleChangeDoc(Head(rx))
    /\ rx' = Tail(rx) /\ UNCHANGED <<tasks, overflow_checks>>

LoopChangeConfiguration ==
    /\ Dequeued("ChangeConfiguration") /\ HandleChangeConfiguration(Head(rx))
    /\ rx' = Tail(rx) /\ UNCHANGED <<tasks, overflow_checks>>

LoopCompletionRequest ==
    /\ Dequeued("CompletionRequest") /\ HandleCompletionRequest(Head(rx))
    /\ rx' = Tail(rx) /\ UNCHANGED <<tasks, overflow_checks>>

Init == Constructed

Next ==
    \/ DidOpen
    \/ DidSave
    \/ DidChange
    \/ DidChangeConfiguration
    \/ LogDone
    \/ Completion
    \/ CompletionReturns
    \/ LoopNewDoc
    \/ LoopSaveDoc
    \/ LoopChangeDoc
    \/ LoopChangeConfiguration
    \/ LoopCompletionRequest

Spec == Init /\ [][Next]_vars

\* C2: a completion for u that the client sent after a didOpen for u is handled
\* with the document open, under every interleaving of the two handlers
C2_OpenBeforeCompletion ==
    (/\ last.cmd.kind = "CompletionRequest"
     /\ \E i, j \in DOMAIN tasks :
           /\ i < j
           /\ tasks[i].kind = "did_open"
           /\ tasks[i].cmd.uri = last.cmd.params.uri
           /\ tasks[j].kind = "completion"
           /\ tasks[j].cmd.id = last.cmd.id) =>
        last.docs[last.cmd.params.uri].open

\* C3: the loop has sent exactly one value on the reply channel of the
\* CompletionRequest it dequeued last, before it dequeues the next message
C3_ExactlyOneReply ==
    last.cmd.kind = "CompletionRequest" =>
        Len(oneshot[last.cmd.id].sent) = 1 /\ ~oneshot[last.cmd.id].tx_dropped

\* C4: after any message the loop is still running
C4_LoopSurvives ==
    last.cmd.kind # "None" => loop = "running"

----------------------------------------------------------------------------
(* SpecDocs: the loop fed by a client that sends one message at a time and  *)
(* waits until the loop has taken it off the queue.                          *)

DocsMessages ==
    { NewDoc(u, <<"a", "b">>, "python") : u \in URIs }
    \cup { NewDoc(u, <<"a", "\n", "b">>, "c") : u \in URIs }
    \cup { SaveDoc("u1", Some(<<"a", "a">>)),
           ChangeDoc("u1", <<Change(Some(Range(Position(0, 0), Position(0, 1))), <<"b">>)>>),
           ChangeConfiguration(Payload([EmptyPartial EXCEPT !.feature_paths = Some(TRUE)])) }
DocsCursors ==
    { CompletionParams("u1", l, 0) : l \in 1..3 }
    \cup { CompletionParams("u1", 0, 1), CompletionParams("u1", 0, 3) }

\* a notification handler of Backend, its log message taken at once: did_open,
\* did_save, did_change or did_change_configuration sends its BackendRequest
DocsNotify ==
    /\ rx = <<>>
    /\ \E cmd \in DocsMessages : SendRequest(cmd)
    /\ UNCHANGED <<settings, citation_bibliography_re, docs, loop, last, tasks, oneshot,
                   overflow_checks>>

\* Backend::completion up to rx.await, sent once the completion before it has
\* returned: that handler and its reply channel are gone, and the model uses
\* their places again
DocsCompletion ==
    /\ rx = <<>>
    /\ \A i \in DOMAIN tasks : tasks[i].pc = "done"
    /\ \E params \in DocsCursors :
          LET cmd == CompletionRequest(1, params)
          IN  /\ SendRequest(cmd)
              /\ tasks' = << IF loop = "running" THEN Task("completion", "await", cmd, "none")
                             ELSE Task("completion", "done", cmd, "internal_error") >>
    /\ oneshot' = [oneshot EXCEPT ![1] = FreshChannel]
    /\ UNCHANGED <<settings, citation_bibliography_re, docs, loop, last, overflow_checks>>

InitDocs == Constructed

NextDocs ==
    \/ DocsNotify
    \/ DocsCompletion
    \/ CompletionReturns
    \/ LoopNewDoc
    \/ LoopSaveDoc
    \/ LoopChangeDoc
    \/ LoopChangeConfiguration
    \/ LoopCompletionRequest

SpecDocs == InitDocs /\ [][NextDocs]_vars

\* C18: a document that was open before the loop handled a message is open
\* after it, whatever the message; a NewDoc puts its text and its language
\* identifier at its URI and leaves every other document as it was
C18_DocumentsNeverRemoved ==
    /\ \A u \in URIs : last.docs[u].open => docs[u].open
    /\ last.cmd.kind = "NewDoc" =>
           /\ docs[last.cmd.uri] = Document(last.cmd.text, last.cmd.language_id)
           /\ \A v \in URIs \ {last.cmd.uri} : docs[v] = last.docs[v]

\* C18 happens: a NewDoc for an open URI brought another text and another
\* language identifier while the other document was open
C18_Witness ==
    /\ last.cmd.kind = "NewDoc"
    /\ last.docs[last.cmd.uri].open
    /\ last.docs[last.cmd.uri].text # last.cmd.text
    /\ last.docs[last.cmd.uri].language_id # last.cmd.language_id
    /\ \E v \in URIs \ {last.cmd.uri} : docs[v].open


\* the request the last step handled names no open document, or a line beyond
\* the last line of the text, or a column beyond the end of the text
OutsideBuffer ==
    LET doc == last.docs[last.cmd.params.uri]
    IN  \/ ~doc.open
        \/ last.cmd.params.line >= len_lines(doc.text)
        \/ try_line_to_char(doc.text, last.cmd.params.line).v + last.cmd.params.character
              > Len(doc.text)

\* C20: a completion request for a URI without a document, or for a line beyond
\* the last line, or for a column beyond the end of the text, gets a failure on
\* its reply channel, the boundary answers it with the internal error, and the
\* document map and the settings stay as they were
C20_OutsideBufferFails ==
    (last.cmd.kind = "CompletionRequest" /\ OutsideBuffer) =>
        /\ last.response = Failure
        /\ docs = last.docs /\ settings = last.settings
        /\ \A i \in DOMAIN tasks :
               (tasks[i].cmd = last.cmd /\ tasks[i].pc = "done") =>
                   tasks[i].result = "internal_error"

----------------------------------------------------------------------------
(* SpecSortKeys: the sort keys unicode_input gives to the items it collected,
   for a table of unicode-input entries large enough to fill the result up to
   max_completion_items. *)

\* the largest max_completion_items the configuration is drawn from
MaxSortedItems == 102

\* str::cmp on two strings of decimal digits: byte by byte, a proper prefix first
DigitValue(c) == CHOOSE d \in 0..9 : DigitChar(d) = c
RECURSIVE LexLess(_, _)
LexLess(a, b) ==
    IF b = <<>> THEN FALSE
    ELSE IF a = <<>> THEN TRUE
    ELSE IF Head(a) # Head(b) THEN DigitValue(Head(a)) < DigitValue(Head(b))
    ELSE LexLess(Tail(a), Tail(b))

\* chars_snippets after the loop over the tails: n matches, in emission order
Collected(n, params) ==
    [k \in 1..n |->
        [Item("unicode_input", "TEXT", <<"glyph">>, <<"glyph">>, TRUE,
              params.line, params.character, params.character, <<>>, <<>>)
         EXCEPT !.documentation = "prefix"]]

\* the closing enumerate().map() of unicode_input: the emission index, zero
\* padded, becomes the item's sort_text
NumberItems(items) ==
    [k \in 1..Len(items) |-> [items[k] EXCEPT !.sort_text = SortKey(k - 1)]]

InitSortKeys ==
    /\ \E max \in {DefaultMaxCompletionItems, MaxSortedItems} :
          settings = [DefaultSettings EXCEPT !.max_completion_items = max,
                                             !.feature_unicode_input = TRUE]
    /\ citation_bibliography_re = InitialRegex(DefaultSettings)
    /\ docs = [u \in URIs |-> NoDoc]
    /\ rx = <<>>
    /\ loop = "running"
    /\ last = NothingHandled
    /\ tasks = <<>>
    /\ oneshot = [i \in RequestIds |-> FreshChannel]
    /\ overflow_checks = FALSE

\* unicode_input numbers the n items it collected, n up to max_completion_items
SortKeysCall ==
    /\ last.cmd.kind = "None"
    /\ \E n \in 0..settings.max_completion_items :
          LET params == [line |-> 0, character |-> 0, uri |-> "u1"]
              cmd == [kind |-> "unicode_input", params |-> params]
          IN  last' = Handled(cmd, TRUE, Array(NumberItems(Collected(n, params))))
    /\ UNCHANGED <<settings, citation_bibliography_re, docs, rx, loop, tasks, oneshot,
                   overflow_checks>>

NextSortKeys == SortKeysCall

SpecSortKeys == InitSortKeys /\ [][NextSortKeys]_vars

\* C24: for every number of unicode-input items that max_completion_items
\* allows, the items' sort_text values ascend strictly in string order along
\* the emission order, so sorting by sort_text gives back the emission order
C24_SortKeysKeepOrder ==
    last.cmd.kind = "unicode_input" =>
        \A i, j \in DOMAIN last.response.items :
            i < j => LexLess(last.response.items[i].sort_text,
                             last.response.items[j].sort_text)

----------------------------------------------------------------------------
(* SpecReader: RopeReader, the std::io::Read over the chunks of a rope that the
   stream search reads the text through.  A rope is given by its chunking: the
   sequence of its chunks, each a non-empty string. *)

\* the characters of the ropes read here: a word character of two bytes and a
\* character that is no word character
ReaderChars == {"lambda", "+"}

\* the longest chunk, in characters, and the largest number of chunks of a rope
MaxChunkLen == 2
MaxChunks == 3

ChunkTexts == UNION {[1..n -> ReaderChars] : n \in 1..MaxChunkLen}
Chunkings == UNION {[1..n -> ChunkTexts] : n \in 0..MaxChunks}

\* the text of a rope: its chunks one after the other
RECURSIVE Flatten(_)
Flatten(chunks) == IF chunks = <<>> THEN <<>> ELSE Head(chunks) \o Flatten(Tail(chunks))

\* the free space of the buffer the stream search hands to read: it takes the
\* bytes of two chunks
ReadBufLen == 2 * MaxChunkLen * ByteLen("lambda")

\* RopeReader::new
RopeReader_new(rope) == [tail |-> <<>>, chunks |-> rope]

\* the outcome of one call of read: Ok(n) with the bytes written, or the error
\* of write_all, and the reader the call leaves
ReadResult(ok, data, reader) ==
    [ok |-> ok, v |-> IF ok THEN StrLen(data) ELSE 0, data |-> data, reader |-> reader]

\* a read that forgets the tail it held back
read_drop_tail(reader, cap) ==
    IF reader.chunks # <<>>
    THEN LET chunk == Head(reader.chunks)
         IN  ReadResult(TRUE, SubSeq(chunk, 1, Len(chunk) - 1),
                        [tail |-> <<chunk[Len(chunk)]>>, chunks |-> Tail(reader.chunks)])
    ELSE ReadResult(TRUE, <<>>, [tail |-> <<>>, chunks |-> <<>>])

\* RopeReader::read into a buffer with cap free bytes
read(reader, cap) ==
    LET tail_len == StrLen(reader.tail)
    IN  IF reader.chunks # <<>>
        THEN LET chunk == Head(reader.chunks)
                 rest == Tail(reader.chunks)
                 \* chunk.char_indices().rev().find(|(_, ch)| !char_is_word(*ch))
                 nonword == {p \in DOMAIN chunk : ~char_is_word(chunk[p])}
                 pos == MaxOf(nonword)
                 byte_pos == StrLen(SubSeq(chunk, 1, pos - 1))
                 split == nonword # {} /\ byte_pos # 0
                 data == IF split THEN SubSeq(chunk, 1, pos - 1) ELSE chunk
                 tail == IF split THEN SubSeq(chunk, pos, Len(chunk)) ELSE <<>>
             IN  IF tail_len > cap
                 THEN ReadResult(FALSE, <<>>, [tail |-> <<>>, chunks |-> rest])
                 ELSE IF tail_len + StrLen(data) > cap
                 THEN ReadResult(FALSE, <<>>, [tail |-> tail, chunks |-> rest])
                 ELSE ReadResult(TRUE, reader.tail \o data, [tail |-> tail, chunks |-> rest])
        ELSE IF tail_len = 0 THEN ReadResult(TRUE, <<>>, reader)
        ELSE IF tail_len > cap
        THEN ReadResult(FALSE, <<>>, [tail |-> <<>>, chunks |-> <<>>])
        ELSE ReadResult(TRUE, reader.tail, [tail |-> <<>>, chunks |-> <<>>])

InitReader ==
    /\ settings = DefaultSettings
    /\ citation_bibliography_re = InitialRegex(DefaultSettings)
    /\ docs = [u \in URIs |-> NoDoc]
    /\ rx = <<>>
    /\ loop = "running"
    /\ \E rope \in Chunkings :
          last = [ cmd |-> [kind |-> "RopeReader"], rope |-> rope,
                   reader |-> RopeReader_new(rope), reads |-> <<>> ]
    /\ tasks = <<>>
    /\ oneshot = [i \in RequestIds |-> FreshChannel]
    /\ overflow_checks = FALSE

\* the stream search calls read again until a call returns 0 or fails
ReaderRead ==
    /\ IF last.reads = <<>> THEN TRUE
       ELSE LET prev == last.reads[Len(last.reads)] IN prev.ok /\ prev.v # 0
    /\ LET r == read(last.reader, ReadBufLen)
       IN  last' = [last EXCEPT !.reader = r.reader,
                                !.reads = Append(@, [ok |-> r.ok, v |-> r.v, data |-> r.data])]
    /\ UNCHANGED <<settings, citation_bibliography_re, docs, rx, loop, tasks, oneshot,
                   overflow_checks>>

NextReader == ReaderRead

SpecReader == InitReader /\ [][NextReader]_vars

\* the bytes the calls of read have returned so far, in order
RECURSIVE Emitted(_)
Emitted(reads) == IF reads = <<>> THEN <<>> ELSE Head(reads).data \o Emitted(Tail(reads))

\* C25: the bytes returned by the successive reads are the bytes of the buffer in
\* order: what has been returned, the tail held back and the chunks not yet
\* read make up the buffer at every moment; each call reports the number of
\* bytes it returned; and a call returns 0 only when every chunk and the tail
\* have been emitted, the returned bytes then being the whole buffer
C25_ReaderFidelity ==
    last.cmd.kind = "RopeReader" =>
        /\ Emitted(last.reads) \o last.reader.tail \o Flatten(last.reader.chunks)
               = Flatten(last.rope)
        /\ \A i \in DOMAIN last.reads :
               /\ last.reads[i].ok
               /\ last.reads[i].v = StrLen(last.reads[i].data)
               /\ last.reads[i].v = 0 =>
                      /\ i = Len(last.reads)
                      /\ last.reader.chunks = <<>> /\ last.reader.tail = <<>>
                      /\ Emitted(last.reads) = Flatten(last.rope)

\* a rope of several chunks has been read to the end: the first read held back
\* a tail, the tail of the last chunk took a read of its own, then read gave 0
C25_Witness ==
    /\ last.cmd.kind = "RopeReader"
    /\ Len(last.rope) = MaxChunks
    /\ Len(last.reads) = Len(last.rope) + 2
    /\ last.reads[Len(last.reads)].v = 0
    /\ last.reads[1].data # last.rope[1]
    /\ Emitted(last.reads) = Flatten(last.rope)

\* C26: no two successive reads cut a run of word characters: the last
\* character one read returns and the first character the next read returns
\* are never both word characters
C26_WordsNotSplit ==
    last.cmd.kind = "RopeReader" =>
        \A i \in DOMAIN last.reads :
            (/\ i + 1 \in DOMAIN last.reads
             /\ last.reads[i].data # <<>> /\ last.reads[i + 1].data # <<>>) =>
                ~ (/\ char_is_word(last.reads[i].data[Len(last.reads[i].data)])
                   /\ char_is_word(last.reads[i + 1].data[1]))

----------------------------------------------------------------------------
(* SpecClose: the loop and its queue up to and after the moment the sender
   handles are dropped.  The Backend holds the only sender; the closed queue is
   the queue with the closing mark behind the messages sent before: recv gives
   those messages first, and None from then on. *)

\* what the queue holds behind its last message once every sender is dropped
Closed == [kind |-> "Closed"]

QueueClosed == \E i \in DOMAIN rx : rx[i] = Closed

\* the service ends and the Backend is dropped, and its sender with it
DropSenders ==
    /\ ~QueueClosed
    /\ rx' = Append(rx, Closed)
    /\ UNCHANGED <<settings, citation_bibliography_re, docs, loop, last, tasks, oneshot,
                   overflow_checks>>

\* recv returns None on the closed and drained queue, and the loop takes the
\* else branch of its let; the queue stays closed
LoopRecvNone ==
    /\ Dequeued("Closed")
    /\ loop' = "continue"
    /\ last' = Handled(Closed, TRUE, Array(<<>>))
    /\ UNCHANGED <<settings, citation_bibliography_re, docs, rx, tasks, oneshot,
                   overflow_checks>>

\* the continue of the else branch: the loop is back at recv
LoopContinue ==
    /\ loop = "continue"
    /\ loop' = "running"
    /\ UNCHANGED <<settings, citation_bibliography_re, docs, rx, last, tasks, oneshot,
                   overflow_checks>>

InitClose == Constructed

\* a step of the loop task
LoopStep ==
    \/ LoopNewDoc
    \/ LoopSaveDoc
    \/ LoopChangeDoc
    \/ LoopChangeConfiguration
    \/ LoopRecvNone
    \/ LoopContinue

NextClose ==
    \/ DocsNotify
    \/ DropSenders
    \/ LoopNewDoc
    \/ LoopSaveDoc
    \/ LoopChangeDoc
    \/ LoopChangeConfiguration
    \/ LoopRecvNone
    \/ LoopContinue

SpecClose == InitClose /\ [][NextClose]_vars

\* the runtime runs the spawned loop task whenever it can take a step
FairSpecClose == SpecClose /\ WF_vars(LoopStep)

\* C30: once every sender is dropped and the queue is drained, the loop
\* eventually terminates: it is no longer at recv nor on its way back to it
C30_LoopTerminates ==
    (rx = <<Closed>>) ~> (loop \notin {"running", "continue"})

====
